---- MODULE Spec2Model ----
(***************************************************************************)
(* m3api-query: locating pages in API responses, deep-merging partial      *)
(* pages, following continuation, batching (index.js).                     *)
(*                                                                         *)
(* JSON values are tagged records [k, v]; an object is the sequence of its *)
(* <<key, value>> entries in insertion order (the order Object.entries     *)
(* walks them), an array is the sequence of its elements.                  *)
(***************************************************************************)
EXTENDS Integers, Sequences, FiniteSets, TLC

VARIABLES
    kind,            \* kind[r]: the function of this package request r is a call of
    args,            \* args[r]: the arguments of the call besides options
    frame,           \* frame[r]: locals of a function the call is inside of
    options,         \* options[r]: the request options of the call
    pc,              \* pc[r]: where the call stands
    accumulator,     \* accumulator[r]: the page / the batch Map being reduced
    pending,         \* pending[r]: rest of the batch a yield* is iterating
    continuation,    \* continuation[r]: the last response carried `continue`
    requests,        \* requests[r]: transport requests issued so far
    error,           \* error[r]: what the call threw
    result,          \* result[r]: what the call returned
    emptyResponses,  \* consecutive-empty counters, by request identity
    responses,       \* history: responses[r] = the responses pulled, in order
    yields           \* history: yields[r] = <<n, item>>, item yielded after n responses

vars == <<kind, args, frame, options, pc, accumulator, pending, continuation, requests,
          error, result, emptyResponses, responses, yields>>

(***************************************************************************)
(* JSON values                                                             *)
(***************************************************************************)
Undefined == [k |-> "undefined", v |-> <<>>]
Null == [k |-> "null", v |-> <<>>]
Bool(b) == [k |-> "boolean", v |-> b]
Num(n) == [k |-> "number", v |-> n]
Str(s) == [k |-> "string", v |-> s]
Arr(a) == [k |-> "array", v |-> a]
Obj(e) == [k |-> "object", v |-> e]

\* A Set is [k |-> "set", v |-> its elements in insertion order].  A number
\* too large for the integers of the model is [k |-> "double", v |-> n]: the
\* double IdPrefix * 10^4 + n, where n is a multiple of 16, the distance
\* between neighbouring doubles from 2^56 to 2^57.
SetOf(elements) == [k |-> "set", v |-> elements]
Double(n) == [k |-> "double", v |-> n]

\* typeof value
TypeOf(value) ==
    IF value.k \in {"null", "array", "object", "set"} THEN "object"
    ELSE IF value.k = "double" THEN "number"
    ELSE value.k

isArray(value) == value.k = "array"

isObject(value) ==
    TypeOf(value) = "object" /\ value # Null /\ ~isArray(value)

\* baseValue === incrementalValue in mergeObjects, where not both are objects
\* and not both are arrays: an object or array of one response is never the
\* same reference as a value of another response
StrictEqualsNever(a, b) == FALSE

StrictEquals(a, b) ==
    /\ a.k = b.k
    /\ a.k \in {"undefined", "null", "boolean", "number", "string"}
    /\ a.v = b.v

\* Object.prototype.hasOwnProperty.call( base, key ), base given by its entries
HasOwnProperty(base, key) == \E i \in 1..Len(base) : base[i][1] = key

\* base[ key ]
GetProperty(base, key) ==
    IF HasOwnProperty(base, key)
    THEN LET i == CHOOSE j \in 1..Len(base) : base[j][1] = key IN base[i][2]
    ELSE Undefined

\* base[ key ] = value: an existing key keeps its place, a new one goes last
SetProperty(base, key, value) ==
    IF HasOwnProperty(base, key)
    THEN [i \in 1..Len(base) |->
            IF base[i][1] = key THEN <<key, value>> ELSE base[i]]
    ELSE Append(base, <<key, value>>)

\* the 14 leading digits of the 18-digit IDs of the model
IdPrefix == "12345678912345"

\* n in four digits
Pad4(n) ==
    (IF n < 10 THEN "000" ELSE IF n < 100 THEN "00" ELSE IF n < 1000 THEN "0" ELSE "")
    \o ToString(n)

\* the decimal numeral IdPrefix followed by the four digits of lo
DecimalOf(lo) == IdPrefix \o Pad4(lo)

\* IdPrefix * 10^4 / 16 = 12345678912345 * 625 is odd: the double
\* IdPrefix * 10^4 + n has an even mantissa iff n / 16 is odd
EvenMantissa(n) == (n \div 16) % 2 = 1

\* the number the numeral DecimalOf(lo) denotes in JavaScript or JSON: the
\* nearest double, a tie going to the even mantissa
RoundToDouble(lo) ==
    LET below == lo - (lo % 16)
        above == below + 16
    IN  IF lo - below < above - lo THEN Double(below)
        ELSE IF lo - below > above - lo THEN Double(above)
        ELSE IF EvenMantissa(below) THEN Double(below) ELSE Double(above)

\* the offsets whose numerals read back as the double of offset n
ReadsBackAs(n) ==
    {m \in (n - 8)..(n + 8) :
        m >= 0 /\ (m \in {n - 8, n + 8} => EvenMantissa(n))}

\* Number.prototype.toString of such a double prints the numeral that
\* denotes it with the fewest significant digits and, among those, the one
\* nearest to it (exact: "...6784" prints as "...6780")
toStringExact(value) ==
    CASE value.k = "number" -> ToString(value.v)
      [] value.k = "double" -> DecimalOf(value.v)
      [] OTHER -> value.v

\* value.toString() of a number or string
toString(value) ==
    CASE value.k = "number" -> ToString(value.v)
      [] value.k = "double" ->
            LET Shortest(step) ==
                    {m \in ReadsBackAs(value.v) : m % step = 0}
                step == IF Shortest(1000) # {} THEN 1000
                        ELSE IF Shortest(100) # {} THEN 100
                        ELSE IF Shortest(10) # {} THEN 10 ELSE 1
                Distance(m) == IF m < value.v THEN value.v - m ELSE m - value.v
                m == CHOOSE x \in Shortest(step) :
                        \A y \in Shortest(step) :
                            \/ Distance(x) < Distance(y)
                            \/ (Distance(x) = Distance(y) /\ x <= y)
            IN  DecimalOf(m)
      [] OTHER -> value.v

(***************************************************************************)
(* Errors                                                                  *)
(***************************************************************************)
NoError == [type |-> "none", path |-> "", message |-> ""]

\* format( value ) inside mergeValues
format(value) ==
    IF value = Null THEN "null"
    ELSE IF isArray(value) THEN "array"
    ELSE IF isObject(value) THEN "object"
    ELSE TypeOf(value) \o " (" \o
         (IF value.k = "boolean" THEN (IF value.v THEN "true" ELSE "false")
          ELSE IF value.k = "undefined" THEN "undefined"
          ELSE toString(value)) \o ")"

mergeValuesOfSameType(base, incremental, path) ==
    IF TypeOf(base) = TypeOf(incremental)
    THEN [value |-> base, error |-> NoError]
    ELSE [value |-> base,
          error |-> [type |-> "Error", path |-> path,
                     message |-> "Cannot merge " \o format(base) \o
                                 " with " \o format(incremental)]]

mergeValuesKeepsLater(base, incremental, path) ==
    [value |-> incremental, error |-> NoError]

\* The default mergeValues: [value, error]; error # NoError is the throw.
mergeValues(base, incremental, path) ==
    LET baseType == TypeOf(base) IN
    IF baseType = TypeOf(incremental) /\ baseType \in {"string", "number"}
    THEN [value |-> base, error |-> NoError]
    ELSE [value |-> base,
          error |-> [type |-> "Error", path |-> path,
                     message |-> "Cannot merge " \o format(base) \o
                                 " with " \o format(incremental)]]

\* const path = basePath ? `${ basePath }.${ key }` : key;
PathOfKeyOnly(basePath, key) == key

PathOf(basePath, key) ==
    IF basePath # "" THEN basePath \o "." \o key ELSE key

\* [ ...baseValue, ...incrementalValue ]
ConcatReplaces(baseValue, incrementalValue) == incrementalValue

Concat(baseValue, incrementalValue) == baseValue \o incrementalValue

\* a callback a caller passes as m3api-query/mergeValues, after the one of
\* the test "calls custom mergeValues callback": it notes what it was called
\* with in the container it is given,
\* base[ `-test-${ key }` ] = [ baseValue, incrementalValue, path ],
\* and returns a value of its own.  [value, error, base]: base the container
\* as the callback leaves it
Resolved == Str("resolved")

customMergeValues(baseValue, incrementalValue, path, base, key) ==
    [value |-> Resolved, error |-> NoError,
     base |-> SetProperty(base, "-test-" \o key,
                          Arr(<<baseValue, incrementalValue, Str(path)>>))]

\* mergeValues( baseValue, incrementalValue, path, base, key ) in
\* mergeObjects, mergeValues being the callback of the options: the default
\* one (which takes the first three arguments) or the caller's
\* [value, error, base]
callMergeValuesOnCopy(callback, baseValue, incrementalValue, path, base, key) ==
    IF callback = "mergeValues"
    THEN LET m == mergeValues(baseValue, incrementalValue, path)
         IN  [value |-> m.value, error |-> m.error, base |-> base]
    ELSE LET m == customMergeValues(baseValue, incrementalValue, path, base, key)
         IN  [value |-> m.value, error |-> m.error, base |-> base]

callMergeValues(callback, baseValue, incrementalValue, path, base, key) ==
    IF callback = "mergeValues"
    THEN LET m == mergeValues(baseValue, incrementalValue, path)
         IN  [value |-> m.value, error |-> m.error, base |-> base]
    ELSE customMergeValues(baseValue, incrementalValue, path, base, key)

\* Object.assign( base, incremental )
RECURSIVE mergeObjectsShallow(_, _, _, _)
mergeObjectsShallow(base, incremental, callback, basePath) ==
    IF incremental = <<>> THEN [base |-> base, error |-> NoError]
    ELSE mergeObjectsShallow(
            SetProperty(base, Head(incremental)[1], Head(incremental)[2]),
            Tail(incremental), callback, basePath)

(***************************************************************************)
(* mergeObjects( base, incremental, mergeValues, basePath ): base and      *)
(* incremental by their entries, mergeValues by the name of the callback.  *)
(* The for-of loop over the entries of incremental is the recursion on     *)
(* Tail(incremental).  Returns [base, error]: base as mutated so far,      *)
(* error # NoError is the throw.                                           *)
(***************************************************************************)
RECURSIVE mergeObjects(_, _, _, _)
mergeObjects(base, incremental, callback, basePath) ==
    IF incremental = <<>> THEN [base |-> base, error |-> NoError]
    ELSE
    LET key == Head(incremental)[1]
        incrementalValue == Head(incremental)[2]
    IN  IF ~HasOwnProperty(base, key)
        THEN mergeObjects(SetProperty(base, key, incrementalValue),
                          Tail(incremental), callback, basePath)
        ELSE
        LET baseValue == GetProperty(base, key)
            path == PathOf(basePath, key)
        IN  IF isObject(baseValue) /\ isObject(incrementalValue)
            THEN LET inner == mergeObjects(baseValue.v, incrementalValue.v,
                                           callback, path)
                     merged == SetProperty(base, key, Obj(inner.base))
                 IN  IF inner.error # NoError
                     THEN [base |-> merged, error |-> inner.error]
                     ELSE mergeObjects(merged, Tail(incremental), callback,
                                       basePath)
            ELSE IF isArray(baseValue) /\ isArray(incrementalValue)
            THEN mergeObjects(
                    SetProperty(base, key,
                                Arr(Concat(baseValue.v, incrementalValue.v))),
                    Tail(incremental), callback, basePath)
            ELSE IF StrictEquals(baseValue, incrementalValue)
            THEN mergeObjects(base, Tail(incremental), callback, basePath)
            ELSE LET m == callMergeValues(callback, baseValue,
                                          incrementalValue, path, base, key)
                 IN  IF m.error # NoError
                     THEN [base |-> m.base, error |-> m.error]
                     ELSE mergeObjects(SetProperty(m.base, key, m.value),
                                       Tail(incremental), callback, basePath)

\* Object.entries( null ) in mergeObjects( page, null, ... )
EntriesOfNull ==
    [type |-> "TypeError", path |-> "",
     message |-> "Cannot convert undefined or null to object"]

(***************************************************************************)
(* Request parameters.  params is [action, generator, ids]: params.action, *)
(* params.generator, and the parameter the function adds its ID or title   *)
(* to (titles, pageids or revids), each Undefined when absent.             *)
(***************************************************************************)
RangeError(message) == [type |-> "RangeError", path |-> "", message |-> message]

\* disallowGenerator( params, paramName ): what it throws
disallowGenerator(params, paramName) ==
    IF params.generator # Undefined
    THEN RangeError("params." \o paramName \o " cannot be used with generator")
    ELSE NoError

makeParamsAnyAction(params) ==
    [params |-> [params EXCEPT !.action = Str("query")], error |-> NoError]

\* makeParams( params ): [params, error]
makeParams(params) ==
    IF params.action = Undefined
    THEN [params |-> [params EXCEPT !.action = Str("query")], error |-> NoError]
    ELSE IF params.action = Str("query")
    THEN [params |-> params, error |-> NoError]
    ELSE [params |-> params,
          error |-> RangeError("params.action must be \"query\" or undefined")]

\* set.add( element ) on the elements of a Set
SetAdd(elements, element) ==
    IF \E i \in 1..Len(elements) : elements[i] = element THEN elements
    ELSE Append(elements, element)

\* setFrom( values, ( element ) => element.toString() )
RECURSIVE setFromToString(_)
setFromToString(elements) ==
    IF elements = <<>> THEN <<>>
    ELSE SetAdd(setFromToString(SubSeq(elements, 1, Len(elements) - 1)),
                Str(toString(elements[Len(elements)])))

\* makeParamsWithString( paramName, params, paramValue ): [params, error]
makeParamsWithString(paramName, params, paramValue) ==
    LET values == params.ids
        made(v) == makeParams([params EXCEPT !.ids = v])
    IN  CASE values.k = "set" -> made(SetOf(SetAdd(values.v, paramValue)))
          [] values.k = "array" ->
                made(IF \E i \in 1..Len(values.v) : values.v[i] = paramValue
                     THEN values
                     ELSE Arr(Append(values.v, paramValue)))
          [] values.k = "string" -> made(SetOf(SetAdd(<<values>>, paramValue)))
          [] values.k = "undefined" -> made(SetOf(<<paramValue>>))
          [] OTHER ->
                [params |-> params,
                 error |-> RangeError("params." \o paramName \o
                               " must be Set, Array, string, or undefined")]

\* makeParamsWithNumeric( paramName, params, paramValue ): [params, error]
makeParamsWithNumeric(paramName, params, paramValue) ==
    LET value == Str(toString(paramValue))
        values == params.ids
        made(v) == makeParams([params EXCEPT !.ids = v])
    IN  CASE values.k = "set" ->
                made(SetOf(SetAdd(setFromToString(values.v), value)))
          [] values.k = "array" ->
                LET elements == [i \in 1..Len(values.v) |->
                                    Str(toString(values.v[i]))]
                    included == \E i \in 1..Len(elements) : elements[i] = value
                IN  made(Arr(IF included THEN elements
                             ELSE Append(elements, value)))
          [] values.k = "string" -> made(SetOf(SetAdd(<<values>>, value)))
          [] values.k \in {"number", "double"} ->
                made(SetOf(SetAdd(<<Str(toString(values))>>, value)))
          [] values.k = "undefined" -> made(SetOf(<<value>>))
          [] OTHER ->
                [params |-> params,
                 error |-> RangeError("params." \o paramName \o
                               " must be Set, Array, string, number, or undefined")]

\* makeParamsWithTitle( params, title ): [params, error]
makeParamsWithTitle(params, t) ==
    IF disallowGenerator(params, "titles") # NoError
    THEN [params |-> params, error |-> disallowGenerator(params, "titles")]
    ELSE makeParamsWithString("titles", params, Str(t))

\* makeParamsWithPageId( params, pageId ): [params, error]
makeParamsWithPageId(params, id) ==
    IF disallowGenerator(params, "pageids") # NoError
    THEN [params |-> params, error |-> disallowGenerator(params, "pageids")]
    ELSE makeParamsWithNumeric("pageids", params, id)

\* makeParamsWithRevisionId( params, revisionId ): [params, error]; the
\* prop parameter, which gets "revisions" added, is not part of params here
makeParamsWithRevisionId(params, id) ==
    IF disallowGenerator(params, "revids") # NoError
    THEN [params |-> params, error |-> disallowGenerator(params, "revids")]
    ELSE makeParamsWithNumeric("revids", params, id)

(***************************************************************************)
(* Responses.  A response is [normalized, redirects, pages, badrevids,     *)
(* batchcomplete, continue].  normalized and redirects are query.normalized *)
(* and query.redirects, sequences of [from, to] (empty when absent, as     *)
(* `|| []` makes them).  pages and badrevids are the JSON values of        *)
(* query.pages and query.badrevids: Undefined when absent (also when query *)
(* is), an array of pages, or an object keyed by id whose entries stand in *)
(* the order Object.values walks them.  batchcomplete is the JSON value of *)
(* the member: Undefined when absent, true (formatversion=2), or the empty *)
(* string (formatversion=1).  continue is "the member is present".         *)
(***************************************************************************)
Response(pages, batchcomplete, continue) ==
    [normalized |-> <<>>, redirects |-> <<>>, pages |-> pages,
     badrevids |-> Undefined,
     batchcomplete |-> IF batchcomplete THEN Bool(TRUE) ELSE Undefined,
     continue |-> continue]

BatchCompleteAlways(response) == TRUE

\* the response completes a batch: it carries batchcomplete
BatchComplete(response) == response.batchcomplete # Undefined

\* Object.values( object ), object given by its entries
RECURSIVE ObjectValues(_)
ObjectValues(entries) ==
    IF entries = <<>> THEN <<>>
    ELSE <<Head(entries)[2]>> \o ObjectValues(Tail(entries))

\* let pages = query.pages || [];
\* if ( !Array.isArray( pages ) ) { pages = Object.values( pages ); }
ResponsePages(response) ==
    IF response.pages = Undefined THEN <<>>
    ELSE IF isArray(response.pages) THEN response.pages.v
    ELSE ObjectValues(response.pages.v)

RECURSIVE NormalizedTitleChained(_, _)
NormalizedTitleChained(normalized, title) ==
    IF \E i \in 1..Len(normalized) :
            normalized[i].from = title /\ normalized[i].to # title
    THEN LET i == CHOOSE j \in 1..Len(normalized) :
                    normalized[j].from = title /\ normalized[j].to # title
         IN  NormalizedTitleChained(normalized, normalized[i].to)
    ELSE title

\* the for-of over query.normalized with its break: the first match only
NormalizedTitle(normalized, title) ==
    IF \E i \in 1..Len(normalized) : normalized[i].from = title
    THEN LET i == CHOOSE j \in 1..Len(normalized) :
                    /\ normalized[j].from = title
                    /\ \A h \in 1..(j - 1) : normalized[h].from # title
         IN  normalized[i].to
    ELSE title

RECURSIVE RedirectedTitleInDocumentOrder(_, _, _)
RedirectedTitleInDocumentOrder(redirects, title, visitedRedirects) ==
    IF redirects = <<>> THEN title
    ELSE RedirectedTitleInDocumentOrder(
             Tail(redirects),
             IF Head(redirects).from = title THEN Head(redirects).to ELSE title,
             visitedRedirects)

\* the do-while redirectLoop: `continue redirectLoop` goes to the while test
RECURSIVE RedirectedTitle(_, _, _)
RedirectedTitle(redirects, title, visitedRedirects) ==
    IF \E i \in 1..Len(redirects) : redirects[i].from = title
    THEN LET i == CHOOSE j \in 1..Len(redirects) :
                    /\ redirects[j].from = title
                    /\ \A h \in 1..(j - 1) : redirects[h].from # title
             visited == visitedRedirects \cup {redirects[i].from}
             next == redirects[i].to
         IN  IF next \in visited THEN next
             ELSE RedirectedTitle(redirects, next, visited)
    ELSE title

\* for ( const page of pages ) { if ( test ) { return page; } } return null;
FirstPage(pages, Test(_)) ==
    IF \E i \in 1..Len(pages) : Test(pages[i])
    THEN LET i == CHOOSE j \in 1..Len(pages) :
                    /\ Test(pages[j])
                    /\ \A h \in 1..(j - 1) : ~Test(pages[h])
         IN  pages[i]
    ELSE Null

getResponsePageByTitle(response, title) ==
    LET resolved == RedirectedTitle(response.redirects,
                        NormalizedTitle(response.normalized, title), {})
        Matches(page) == GetProperty(page.v, "title") = Str(resolved)
    IN  FirstPage(ResponsePages(response), Matches)

getResponsePageByPageIdOfArray(response, pageId) ==
    LET Matches(page) == pageId = toString(GetProperty(page.v, "pageid"))
    IN  IF response.pages = Undefined THEN Null
        ELSE IF isArray(response.pages)
        THEN FirstPage(response.pages.v, Matches)
        ELSE Null

\* pageId is the decimal string.  An array is scanned comparing
\* page.pageid.toString(); an object is indexed by the string.
getResponsePageByPageId(response, pageId) ==
    LET Matches(page) == pageId = toString(GetProperty(page.v, "pageid"))
    IN  IF response.pages = Undefined THEN Null
        ELSE IF isArray(response.pages)
        THEN FirstPage(response.pages.v, Matches)
        ELSE IF HasOwnProperty(response.pages.v, pageId)
        THEN GetProperty(response.pages.v, pageId)
        ELSE Null

(***************************************************************************)
(* Bounds and inputs                                                       *)
(***************************************************************************)
\* responses the transport serves one call before continuation must end
MaxResponses == 3

\* the calls the model drives; each is its own request identity
Requests == {"request1", "request2"}

\* the title and the page ID the *ByTitle / *ByPageId calls ask for
title == "T"
pageId == "1"

\* m3api-query/mergeValues (the name of the callback),
\* m3api-query/comparePages and m3api-query/compareRevisions ("null", or the
\* member the comparison function orders by), and what maxEmptyResponses( limit )
\* adds to the options (limited: it was used)
DefaultOptions ==
    [limited |-> FALSE, limit |-> 0, mergeValues |-> "mergeValues",
     comparePages |-> "null", compareRevisions |-> "null"]

\* values an attribute of a partial page takes
Leaves ==
    {Null, Bool(TRUE), Bool(FALSE), Num(1), Num(2), Str("s"), Str("t"),
     Str("1"), Arr(<<>>), Arr(<<Num(1)>>), Arr(<<Num(2)>>), Obj(<<>>)}

\* the entry  path[1]: { path[2]: { ... : leaf } }
RECURSIVE Nested(_, _)
Nested(path, leaf) ==
    IF Len(path) = 1 THEN <<path[1], leaf>>
    ELSE <<path[1], Obj(<<Nested(Tail(path), leaf)>>)>>

AttributePaths == {<<"x">>, <<"a", "b", "c", "d">>}

\* partial views of the page titled T with page ID 1
TargetPartials ==
    {Obj(<<<<"title", Str(title)>>, <<"pageid", Num(1)>>, Nested(path, leaf)>>) :
        path \in AttributePaths, leaf \in Leaves}

OtherPage == Obj(<<<<"title", Str("U")>>, <<"pageid", Num(2)>>>>)

\* what the transport may answer a *ByTitle / *ByPageId call
SinglePageResponses ==
    {Response(pages, batchcomplete, continue) :
        pages \in {Arr(<<page>>) : page \in TargetPartials}
                  \cup {Undefined, Arr(<<OtherPage>>)},
        batchcomplete \in BOOLEAN, continue \in BOOLEAN}

\* a call whose arguments are the ones the model fixes (title, pageId) and
\* params = {}, and the locals of a call that has not started: title and
\* visitedRedirects of getResponsePageByTitle, params as reassigned by
\* makeParams...
NoParams == [action |-> Undefined, generator |-> Undefined, ids |-> Undefined]

NoArguments == [title |-> title, id |-> Str(pageId), params |-> NoParams]

NoFrame == [title |-> "", visitedRedirects |-> {}, params |-> NoParams]

\* params = {} of a queryFullPages or queryFullRevisions call, with the
\* parameters that decide whether the request can produce pages
EmptyParams ==
    [action |-> Undefined, generator |-> Undefined, titles |-> Undefined,
     pageids |-> Undefined, revids |-> Undefined, list |-> Undefined]

\* the arguments of a queryFullPages or queryFullRevisions call on a
\* generator
GeneratorArguments ==
    [NoArguments EXCEPT !.params = [EmptyParams EXCEPT !.generator = Str("allpages")]]

(***************************************************************************)
(* Calls.  pc[r]: "unused" (not part of the run), "start" (not called      *)
(* yet), "awaiting" (a transport request is in flight), "yielded" (an      *)
(* async generator suspended at a yield), "returned" / "done" (finished),  *)
(* "failed" (threw).                                                       *)
(***************************************************************************)
InitCallsWith(kinds, arguments, opts) ==
    /\ kind = kinds
    /\ args = arguments
    /\ frame = [r \in Requests |-> NoFrame]
    /\ options = opts
    /\ pc = [r \in Requests |-> IF kinds[r] = "none" THEN "unused" ELSE "start"]
    /\ accumulator = [r \in Requests |-> <<>>]
    /\ pending = [r \in Requests |-> <<>>]
    /\ continuation = [r \in Requests |-> FALSE]
    /\ requests = [r \in Requests |-> 0]
    /\ error = [r \in Requests |-> NoError]
    /\ result = [r \in Requests |-> Undefined]
    /\ emptyResponses = [r \in Requests |-> 0]
    /\ responses = [r \in Requests |-> <<>>]
    /\ yields = [r \in Requests |-> <<>>]

InitCalls(kinds, opts) ==
    InitCallsWith(kinds,
                  [r \in Requests |->
                      IF kinds[r] \in {"queryFullPages", "queryFullRevisions"}
                      THEN GeneratorArguments ELSE NoArguments],
                  opts)

IssueRequestAndTheNext(r) ==
    /\ requests' = [requests EXCEPT ![r] = @ + 2]
    /\ pc' = [pc EXCEPT ![r] = "awaiting"]

\* session.request( ... ): one more transport request is in flight
IssueRequest(r) ==
    /\ requests' = [requests EXCEPT ![r] = @ + 1]
    /\ pc' = [pc EXCEPT ![r] = "awaiting"]

ThrowReturnsNothing(r, e) ==
    /\ pc' = [pc EXCEPT ![r] = "returned"]
    /\ error' = error

\* throw
Throw(r, e) ==
    /\ pc' = [pc EXCEPT ![r] = "failed"]
    /\ error' = [error EXCEPT ![r] = e]

\* the transport answers request r's pending transport request
Receives(r, response) ==
    /\ pc[r] = "awaiting"
    /\ response.continue => requests[r] < MaxResponses
    /\ responses' = [responses EXCEPT ![r] = Append(@, response)]
    /\ continuation' = [continuation EXCEPT ![r] = response.continue]

NoBatch ==
    [type |-> "Error", path |-> "",
     message |-> "API finished continuation without completing a batch"]

\* const initial = () => ( {} );
initialPage == <<>>

\* the reducer of queryFullPageByTitle; page by its entries
queryFullPageByTitleReducerKeepsLatest(page, response, callback) ==
    LET incr == getResponsePageByTitle(response, title)
    IN  IF incr = Null THEN [base |-> page, error |-> EntriesOfNull]
        ELSE [base |-> incr.v, error |-> NoError]

queryFullPageByTitleReducer(page, response, callback) ==
    LET incr == getResponsePageByTitle(response, title)
    IN  IF incr = Null THEN [base |-> page, error |-> EntriesOfNull]
        ELSE mergeObjects(page, incr.v, callback, "")

\* the reducer of queryFullPageByPageId
queryFullPageByPageIdReducer(page, response, callback) ==
    LET incr == getResponsePageByPageId(response, pageId)
    IN  IF incr = Null THEN [base |-> page, error |-> EntriesOfNull]
        ELSE mergeObjects(page, incr.v, callback, "")

\* params = makeParamsWith...( params, ... ) at the head of the functions
\* that are given a title, a page ID or a revision ID: [params, error]
MadeParams(r) ==
    CASE kind[r] \in {"queryPartialPageByTitle", "queryIncrementalPageByTitle",
                      "queryFullPageByTitle"} ->
            makeParamsWithTitle(args[r].params, args[r].title)
      [] kind[r] \in {"queryPartialPageByPageId", "queryIncrementalPageByPageId",
                      "queryFullPageByPageId"} ->
            makeParamsWithPageId(args[r].params, args[r].id)
      [] kind[r] \in {"queryPotentialRevisionByRevisionId",
                      "queryFullRevisionByRevisionId"} ->
            makeParamsWithRevisionId(args[r].params, args[r].id)

\* the head of such a function up to its first await: makeParamsWith...
\* throws, or the first request goes out with the params made
StartCall(r) ==
    LET made == MadeParams(r) IN
    IF made.error # NoError
    THEN /\ Throw(r, made.error)
         /\ UNCHANGED <<requests, frame>>
    ELSE /\ IssueRequest(r)
         /\ frame' = [frame EXCEPT ![r].params = made.params]
         /\ UNCHANGED error

\* queryFullPageByTitle / queryFullPageByPageId up to the first await:
\* the params are made, the accumulator is initial(), the first request
\* goes out
CallFullPage(r) ==
    /\ kind[r] \in {"queryFullPageByTitle", "queryFullPageByPageId"}
    /\ pc[r] = "start"
    /\ accumulator' = [accumulator EXCEPT ![r] = initialPage]
    /\ StartCall(r)
    /\ UNCHANGED <<kind, args, options, pending, continuation, result,
                   emptyResponses, responses, yields>>

\* one turn of `for await ( const page of
\* session.requestAndContinueReducingBatch( ... ) ) { return page; }`
\* and the throw after the loop
FullPageResponse(r, response) ==
    /\ kind[r] \in {"queryFullPageByTitle", "queryFullPageByPageId"}
    /\ Receives(r, response)
    /\ LET reduced == IF kind[r] = "queryFullPageByTitle"
                      THEN queryFullPageByTitleReducer(
                              accumulator[r], response, options[r].mergeValues)
                      ELSE queryFullPageByPageIdReducer(
                              accumulator[r], response, options[r].mergeValues)
       IN  /\ accumulator' = [accumulator EXCEPT ![r] = reduced.base]
           /\ IF reduced.error # NoError
              THEN /\ Throw(r, reduced.error)
                   /\ UNCHANGED <<requests, result>>
              ELSE IF BatchComplete(response)
              THEN /\ pc' = [pc EXCEPT ![r] = "returned"]
                   /\ result' = [result EXCEPT ![r] = Obj(reduced.base)]
                   /\ UNCHANGED <<requests, error>>
              ELSE IF response.continue
              THEN /\ IssueRequest(r)
                   /\ UNCHANGED <<error, result>>
              ELSE /\ Throw(r, NoBatch)
                   /\ UNCHANGED <<requests, result>>
    /\ UNCHANGED <<kind, args, frame, options, pending, emptyResponses, yields>>

InitFullPage ==
    \E k \in {"queryFullPageByTitle", "queryFullPageByPageId"} :
        InitCalls([r \in Requests |-> IF r = "request1" THEN k ELSE "none"],
                  [r \in Requests |-> DefaultOptions])

NextFullPage ==
    \/ \E r \in Requests : CallFullPage(r)
    \/ \E r \in Requests, response \in SinglePageResponses :
            FullPageResponse(r, response)

\* one queryFullPageByTitle or queryFullPageByPageId call
SpecFullPage == InitFullPage /\ [][NextFullPage]_vars

(***************************************************************************)
(* queryPartialPageByTitle, queryPartialPageByPageId; page IDs beyond 2^53 *)
(***************************************************************************)
\* queryPartialPageBy...( session, ..., params ) up to its await
CallPartialPage(r) ==
    /\ kind[r] \in {"queryPartialPageByTitle", "queryPartialPageByPageId"}
    /\ pc[r] = "start"
    /\ StartCall(r)
    /\ UNCHANGED <<kind, args, options, accumulator, pending, continuation,
                   result, emptyResponses, responses, yields>>

\* the response to its one request arrives; the page is looked up in it
PartialPageResponse(r, response) ==
    /\ kind[r] \in {"queryPartialPageByTitle", "queryPartialPageByPageId"}
    /\ Receives(r, response)
    /\ result' = [result EXCEPT ![r] =
                      IF kind[r] = "queryPartialPageByTitle"
                      THEN getResponsePageByTitle(response, args[r].title)
                      ELSE getResponsePageByPageId(response, toString(args[r].id))]
    /\ pc' = [pc EXCEPT ![r] = "returned"]
    /\ UNCHANGED <<kind, args, frame, options, accumulator, pending, requests,
                   error, emptyResponses, yields>>

\* the last four digits of the page IDs 12345678912345dddd of the model
IdLows == {6780, 6788, 6789, 6800}

\* an ID as written in a program or in JSON: the numeral, in quotes or not
IdNumerals == [form : {"text", "number"}, lo : IdLows]

\* the value the program then holds
ValueOf(numeral) ==
    IF numeral.form = "text" THEN Str(DecimalOf(numeral.lo))
    ELSE RoundToDouble(numeral.lo)

\* params.pageids holding one ID already, or absent
PageIdsParam(container, value) ==
    CASE container = "undefined" -> Undefined
      [] container = "single" -> value
      [] container = "array" -> Arr(<<value>>)
      [] container = "set" -> SetOf(<<value>>)

\* the response holds the page written.served, alone or behind another page
ServedResponses(r) ==
    LET page == Obj(<<<<"pageid", ValueOf(args[r].written.served)>>>>)
        other == Obj(<<<<"pageid", Num(7)>>>>)
    IN  {Response(Arr(<<page>>), TRUE, FALSE),
         Response(Arr(<<other, page>>), TRUE, FALSE)}

\* one queryPartialPageByPageId call; written holds the numerals behind the
\* page ID given, the page ID already in params, and the page ID of the page
\* the response holds
InitPartialPage ==
    \E given \in IdNumerals, existing \in IdNumerals, served \in IdNumerals,
       container \in {"undefined", "single", "array", "set"} :
        InitCallsWith(
            [r \in Requests |->
                IF r = "request1" THEN "queryPartialPageByPageId" ELSE "none"],
            [r \in Requests |->
                [title |-> title,
                 id |-> ValueOf(given),
                 params |-> [NoParams EXCEPT
                                !.ids = PageIdsParam(container, ValueOf(existing))],
                 written |-> [given |-> given, existing |-> existing,
                              served |-> served]]],
            [r \in Requests |-> DefaultOptions])

NextPartialPage ==
    \/ \E r \in Requests : CallPartialPage(r)
    \/ \E r \in Requests : \E response \in ServedResponses(r) :
            PartialPageResponse(r, response)

SpecPartialPage == InitPartialPage /\ [][NextPartialPage]_vars

(***************************************************************************)
(* getResponsePageByTitle applied to one response                          *)
(***************************************************************************)
\* the longest query.redirects the model builds
MaxRedirects == 3

\* titles of pages, and a title as a user may type it
Titles == {"A", "B", "C"}

InputTitles == {"a", "A"}

\* query.redirects: any entries between the titles, self-redirects and
\* entries with the same `from` included, in any order
RedirectLists ==
    UNION {[1..n -> [from : Titles, to : Titles]] : n \in 0..MaxRedirects}

\* query.normalized
NormalizedLists ==
    {<<>>,
     <<[from |-> "a", to |-> "A"]>>,
     <<[from |-> "a", to |-> "A"], [from |-> "A", to |-> "B"]>>,
     <<[from |-> "A", to |-> "B"], [from |-> "a", to |-> "A"]>>}

PageTitled(t) == Obj(<<<<"title", Str(t)>>>>)

\* query.pages: absent, an array (formatversion=2), or an object keyed by
\* page ID (formatversion=1)
LocatorPageLists ==
    {Undefined,
     Arr(<<PageTitled("A")>>),
     Arr(<<PageTitled("C")>>),
     Arr(<<PageTitled("A"), PageTitled("B"), PageTitled("C")>>),
     Obj(<<<<"2", PageTitled("B")>>>>)}

LocatorResponses ==
    {[Response(pages, TRUE, FALSE) EXCEPT !.normalized = normalized,
                                          !.redirects = redirects] :
        pages \in LocatorPageLists, normalized \in NormalizedLists,
        redirects \in RedirectLists}

\* getResponsePageByTitle( response, title ) called with some response, and
\* returned
LocatePage(r) ==
    /\ kind[r] = "getResponsePageByTitle"
    /\ pc[r] = "start"
    /\ \E response \in LocatorResponses :
          /\ responses' = [responses EXCEPT ![r] = <<response>>]
          /\ result' = [result EXCEPT ![r] =
                            getResponsePageByTitle(response, args[r].title)]
    /\ pc' = [pc EXCEPT ![r] = "returned"]
    /\ UNCHANGED <<kind, args, frame, options, accumulator, pending,
                   continuation, requests, error, emptyResponses, yields>>

InitLocator ==
    \E t \in InputTitles :
        InitCallsWith(
            [r \in Requests |->
                IF r = "request1" THEN "getResponsePageByTitle" ELSE "none"],
            [r \in Requests |-> [NoArguments EXCEPT !.title = t]],
            [r \in Requests |-> DefaultOptions])

NextLocator == \E r \in Requests : LocatePage(r)

SpecLocator == InitLocator /\ [][NextLocator]_vars

\* query.converted, as a wiki with language converter support returns it
\* when asked to convert titles
ConvertedLists ==
    {<<>>,
     <<[from |-> "A", to |-> "B"]>>,
     <<[from |-> "C", to |-> "A"], [from |-> "A", to |-> "B"]>>,
     <<[from |-> "B", to |-> "C"]>>}

\* responses that may hold converted titles beside normalized titles and
\* redirects
ConvertedResponses ==
    {[normalized |-> normalized, converted |-> converted,
      redirects |-> redirects, pages |-> pages, badrevids |-> Undefined,
      batchcomplete |-> Bool(TRUE), continue |-> FALSE] :
        normalized \in {<<>>, <<[from |-> "a", to |-> "A"]>>},
        converted \in ConvertedLists,
        redirects \in {<<>>, <<[from |-> "B", to |-> "C"]>>,
                       <<[from |-> "A", to |-> "C"]>>},
        pages \in LocatorPageLists}

\* getResponsePageByTitle( response, title ) called with such a response,
\* and returned
LocatePageConverted(r) ==
    /\ kind[r] = "getResponsePageByTitle"
    /\ pc[r] = "start"
    /\ \E response \in ConvertedResponses :
          /\ responses' = [responses EXCEPT ![r] = <<response>>]
          /\ result' = [result EXCEPT ![r] =
                            getResponsePageByTitle(response, args[r].title)]
    /\ pc' = [pc EXCEPT ![r] = "returned"]
    /\ UNCHANGED <<kind, args, frame, options, accumulator, pending,
                   continuation, requests, error, emptyResponses, yields>>

NextConverted == \E r \in Requests : LocatePageConverted(r)

SpecConverted == InitLocator /\ [][NextConverted]_vars

(***************************************************************************)
(* getResponsePageByTitle, one turn of its redirectLoop at a time          *)
(***************************************************************************)
\* one turn of the do-while, its test included, for the locals title and
\* visitedRedirects: the locals after it, and whether the loop goes on
RedirectLoopTurnForgetsVisited(redirects, local) ==
    IF \E i \in 1..Len(redirects) : redirects[i].from = local.title
    THEN LET i == CHOOSE j \in 1..Len(redirects) :
                    /\ redirects[j].from = local.title
                    /\ \A h \in 1..(j - 1) : redirects[h].from # local.title
         IN  [title |-> redirects[i].to,
              visitedRedirects |-> local.visitedRedirects,
              again |-> redirects[i].to \notin local.visitedRedirects]
    ELSE [title |-> local.title,
          visitedRedirects |-> local.visitedRedirects,
          again |-> FALSE]

RedirectLoopTurn(redirects, local) ==
    IF \E i \in 1..Len(redirects) : redirects[i].from = local.title
    THEN LET i == CHOOSE j \in 1..Len(redirects) :
                    /\ redirects[j].from = local.title
                    /\ \A h \in 1..(j - 1) : redirects[h].from # local.title
             visited == local.visitedRedirects \cup {redirects[i].from}
         IN  [title |-> redirects[i].to,
              visitedRedirects |-> visited,
              again |-> redirects[i].to \notin visited]
    ELSE [title |-> local.title,
          visitedRedirects |-> local.visitedRedirects,
          again |-> FALSE]

\* responses whose redirects are any list, with or without pages
RedirectLoopResponses ==
    {[Response(pages, TRUE, FALSE) EXCEPT !.redirects = redirects] :
        pages \in {Undefined,
                   Arr(<<PageTitled("A"), PageTitled("B"), PageTitled("C")>>)},
        redirects \in RedirectLists}

\* getResponsePageByTitle( response, title ) called with some response; it
\* has normalized the title and stands before the do-while
EnterRedirectLoop(r) ==
    /\ kind[r] = "getResponsePageByTitle"
    /\ pc[r] = "start"
    /\ \E response \in RedirectLoopResponses :
          /\ responses' = [responses EXCEPT ![r] = <<response>>]
          /\ frame' = [frame EXCEPT
                          ![r].title = NormalizedTitle(response.normalized,
                                                       args[r].title),
                          ![r].visitedRedirects = {}]
    /\ pc' = [pc EXCEPT ![r] = "redirectLoop"]
    /\ UNCHANGED <<kind, args, options, accumulator, pending, continuation,
                   requests, error, result, emptyResponses, yields>>

\* one turn of the do-while
TurnRedirectLoop(r) ==
    /\ pc[r] = "redirectLoop"
    /\ LET turn == RedirectLoopTurn(responses[r][1].redirects, frame[r])
       IN  /\ frame' = [frame EXCEPT
                           ![r].title = turn.title,
                           ![r].visitedRedirects = turn.visitedRedirects]
           /\ pc' = [pc EXCEPT ![r] =
                         IF turn.again THEN "redirectLoop" ELSE "pages"]
    /\ UNCHANGED <<kind, args, options, accumulator, pending, continuation,
                   requests, error, result, emptyResponses, responses, yields>>

\* the search of the pages for the title, and the return
ReturnPage(r) ==
    /\ pc[r] = "pages"
    /\ LET Matches(page) == GetProperty(page.v, "title") = Str(frame[r].title)
       IN  result' = [result EXCEPT ![r] =
                         FirstPage(ResponsePages(responses[r][1]), Matches)]
    /\ pc' = [pc EXCEPT ![r] = "returned"]
    /\ UNCHANGED <<kind, args, frame, options, accumulator, pending,
                   continuation, requests, error, emptyResponses, responses,
                   yields>>

InitRedirectLoop ==
    \E t \in Titles :
        InitCallsWith(
            [r \in Requests |->
                IF r = "request1" THEN "getResponsePageByTitle" ELSE "none"],
            [r \in Requests |-> [NoArguments EXCEPT !.title = t]],
            [r \in Requests |-> DefaultOptions])

NextRedirectLoop ==
    \/ \E r \in Requests : EnterRedirectLoop(r)
    \/ \E r \in Requests : TurnRedirectLoop(r)
    \/ \E r \in Requests : ReturnPage(r)

\* the function is synchronous code: once called it keeps running
SpecRedirectLoop ==
    InitRedirectLoop /\ [][NextRedirectLoop]_vars /\ WF_vars(NextRedirectLoop)

(***************************************************************************)
(* queryFullPages                                                          *)
(***************************************************************************)
\* a value in a boolean context
Truthy(value) ==
    CASE value.k \in {"undefined", "null"} -> FALSE
      [] value.k = "boolean" -> value.v
      [] value.k = "number" -> value.v # 0
      [] value.k = "string" -> value.v # ""
      [] OTHER -> TRUE

PageKeyByPageId(page) == GetProperty(page.v, "pageid")

\* const key = page.pageid || page.title;
PageKey(page) ==
    LET pageid == GetProperty(page.v, "pageid")
    IN  IF Truthy(pageid) THEN pageid ELSE GetProperty(page.v, "title")

\* const initial = () => new Map();  The Map is the sequence of its
\* <<key, page>> entries in insertion order; r is the call the closure
\* belongs to.
initialKeepsBatch(r) == accumulator[r]

initialOfOtherCall(r) ==
    accumulator[CHOOSE other \in Requests : other # r]

initial(r) == <<>>

\* the for-of loop of the reducer of queryFullPages over the pages of one
\* response: [base, error], base the Map as mutated so far
RECURSIVE queryFullPagesReducerKeepsFirst(_, _, _)
queryFullPagesReducerKeepsFirst(batch, pages, callback) ==
    IF pages = <<>> THEN [base |-> batch, error |-> NoError]
    ELSE
    LET page == Head(pages)
        key == PageKey(page)
    IN  IF HasOwnProperty(batch, key)
        THEN queryFullPagesReducerKeepsFirst(batch, Tail(pages), callback)
        ELSE queryFullPagesReducerKeepsFirst(SetProperty(batch, key, page),
                                             Tail(pages), callback)

RECURSIVE queryFullPagesReducer(_, _, _)
queryFullPagesReducer(batch, pages, callback) ==
    IF pages = <<>> THEN [base |-> batch, error |-> NoError]
    ELSE
    LET page == Head(pages)
        key == PageKey(page)
    IN  IF HasOwnProperty(batch, key)
        THEN LET merged == mergeObjects(GetProperty(batch, key).v, page.v,
                                        callback, "")
                 set == SetProperty(batch, key, Obj(merged.base))
             IN  IF merged.error # NoError
                 THEN [base |-> set, error |-> merged.error]
                 ELSE queryFullPagesReducer(set, Tail(pages), callback)
        ELSE queryFullPagesReducer(SetProperty(batch, key, page), Tail(pages),
                                   callback)

\* the comparison functions of the documentation,
\* ( { pageid: p1 }, { pageid: p2 } ) => p1 - p2 for by = "pageid" and
\* ( { revid: r1 }, { revid: r2 } ) => r1 - r2 for by = "revid"; the pages
\* and revisions of the model carry these as numbers
compareFn(by, a, b) == GetProperty(a.v, by).v - GetProperty(b.v, by).v

\* item put into the sorted items, behind every item not greater than it
RECURSIVE Insert(_, _, _)
Insert(sorted, item, by) ==
    IF sorted = <<>> THEN <<item>>
    ELSE IF compareFn(by, Head(sorted), item) > 0 THEN <<item>> \o sorted
    ELSE <<Head(sorted)>> \o Insert(Tail(sorted), item, by)

\* items.sort( compareFn ): a stable sort
RECURSIVE Sort(_, _)
Sort(items, by) ==
    IF items = <<>> THEN <<>>
    ELSE Insert(Sort(SubSeq(items, 1, Len(items) - 1), by),
                items[Len(items)], by)

BatchPagesAsInserted(batch, opts) == ObjectValues(batch)

BatchPagesAlwaysSorted(batch, opts) == Sort(ObjectValues(batch), "pageid")

\* what `yield *` iterates for a completed batch:
\* [ ...batch.values() ].sort( comparePages ), or batch.values()
BatchPages(batch, opts) ==
    IF opts.comparePages # "null"
    THEN Sort(ObjectValues(batch), opts.comparePages)
    ELSE ObjectValues(batch)

\* yield item, while the n-th response is the latest one received
Yield(r, n, item) ==
    /\ yields' = [yields EXCEPT ![r] = Append(@, <<n, item>>)]
    /\ pc' = [pc EXCEPT ![r] = "yielded"]

\* the loop of session.requestAndContinue: another request while the last
\* response carried continue, else the generators are done
ContinueOrFinish(r, continue) ==
    IF continue
    THEN IssueRequest(r)
    ELSE /\ pc' = [pc EXCEPT ![r] = "done"]
         /\ UNCHANGED requests

\* the error of a queryFullPages or queryFullRevisions call whose params
\* cannot produce pages
InvalidParams(functionName, params) ==
    [type |-> "Error", path |-> "",
     message |-> "Request params for " \o functionName \o
                 "() must include titles, pageids, revids, and/or generator!"
                 \o (IF params.list # Undefined
                     THEN " You probably want to change list=" \o params.list.v
                          \o " to generator=" \o params.list.v
                          \o ", and prefix its parameters with \"g\"."
                     ELSE "")]

CanProducePagesWithList(params) ==
    \/ params.titles # Undefined
    \/ params.pageids # Undefined
    \/ params.revids # Undefined
    \/ params.generator # Undefined
    \/ params.list # Undefined

\* the params include titles, pageids, revids and/or generator
CanProducePages(params) ==
    \/ params.titles # Undefined
    \/ params.pageids # Undefined
    \/ params.revids # Undefined
    \/ params.generator # Undefined

\* the head of queryFullPages and queryFullRevisions, run by the first
\* next(): makeParams and the check of the params: [params, error]
CheckedParams(r) ==
    LET made == makeParams(args[r].params) IN
    IF made.error = NoError /\ ~CanProducePages(args[r].params)
    THEN [params |-> made.params,
          error |-> InvalidParams(kind[r], args[r].params)]
    ELSE made

\* the consumer calls next() on the generator queryFullPages returned: the
\* first call runs it up to its first request; a later one resumes it at the
\* yield, which hands out the next page of the batch or, the batch being
\* exhausted, goes on to a new batch
queryFullPagesNext(r) ==
    /\ kind[r] = "queryFullPages"
    /\ pc[r] \in {"start", "yielded"}
    /\ IF pc[r] = "start"
       THEN IF CheckedParams(r).error # NoError
            THEN /\ Throw(r, CheckedParams(r).error)
                 /\ UNCHANGED <<accumulator, requests, frame, pending, yields>>
            ELSE /\ accumulator' = [accumulator EXCEPT ![r] = initial(r)]
                 /\ IssueRequest(r)
                 /\ frame' = [frame EXCEPT ![r].params = CheckedParams(r).params]
                 /\ UNCHANGED <<pending, yields, error>>
       ELSE IF pending[r] # <<>>
       THEN /\ Yield(r, Len(responses[r]), Head(pending[r]))
            /\ pending' = [pending EXCEPT ![r] = Tail(@)]
            /\ UNCHANGED <<accumulator, requests, frame, error>>
       ELSE /\ accumulator' = [accumulator EXCEPT ![r] = initial(r)]
            /\ ContinueOrFinish(r, continuation[r])
            /\ UNCHANGED <<pending, yields, frame, error>>
    /\ UNCHANGED <<kind, args, options, continuation, result, emptyResponses,
                   responses>>

(***************************************************************************)
(* maxEmptyResponses( limit ): the bound on consecutive responses without  *)
(* entities, counted per request identity                                  *)
(***************************************************************************)
TooManyEmptyResponsesError ==
    [type |-> "TooManyEmptyResponsesError", path |-> "", message |-> ""]

\* the identity a call's counter is kept under
RequestIdentityOfOptions(r) == "request1"

RequestIdentity(r) == r

\* one response with that many entities, the counter being at `counter`:
\* [counter, error]
handleEntitiesNeverResets(limit, counter, entities) ==
    IF entities = 0
    THEN [counter |-> counter + 1,
          error |-> IF counter + 1 > limit
                    THEN TooManyEmptyResponsesError ELSE NoError]
    ELSE [counter |-> counter, error |-> NoError]

handleEntitiesAllowsOneMore(limit, counter, entities) ==
    IF entities = 0
    THEN [counter |-> counter + 1,
          error |-> IF counter + 1 > limit + 1
                    THEN TooManyEmptyResponsesError ELSE NoError]
    ELSE [counter |-> 0, error |-> NoError]

handleEntitiesResetsWhenSeveral(limit, counter, entities) ==
    IF entities <= 1
    THEN [counter |-> counter + 1,
          error |-> IF counter + 1 > limit
                    THEN TooManyEmptyResponsesError ELSE NoError]
    ELSE [counter |-> 0, error |-> NoError]

handleEntitiesStartsOver(limit, counter, entities) ==
    IF entities = 0
    THEN [counter |-> IF counter + 1 > limit THEN 0 ELSE counter + 1,
          error |-> NoError]
    ELSE [counter |-> 0, error |-> NoError]

handleEntities(limit, counter, entities) ==
    IF entities = 0
    THEN [counter |-> counter + 1,
          error |-> IF counter + 1 > limit
                    THEN TooManyEmptyResponsesError ELSE NoError]
    ELSE [counter |-> 0, error |-> NoError]

\* the governor applied for call r, when its options hold a limit
Governed(r, entities) ==
    IF options[r].limited
    THEN handleEntities(options[r].limit,
                        emptyResponses[RequestIdentity(r)], entities)
    ELSE [counter |-> emptyResponses[RequestIdentity(r)], error |-> NoError]

\* one response reaches the generator of queryFullPages, which awaits it
\* inside session.requestAndContinueReducingBatch: the reducer folds its
\* pages into the batch; a response with batchcomplete makes the batch be
\* yielded, page by page, the first of them now; otherwise continuation goes on
queryFullPagesResponse(r, response) ==
    /\ kind[r] = "queryFullPages"
    /\ Receives(r, response)
    /\ LET pages == ResponsePages(response)
           reduced == queryFullPagesReducer(accumulator[r], pages,
                                            options[r].mergeValues)
           governed == IF reduced.error = NoError
                       THEN Governed(r, Len(pages))
                       ELSE [counter |-> emptyResponses[RequestIdentity(r)],
                             error |-> reduced.error]
           items == BatchPages(reduced.base, options[r])
       IN  /\ accumulator' =
                 [accumulator EXCEPT ![r] =
                     IF governed.error = NoError /\ BatchComplete(response)
                        /\ items = <<>>
                     THEN initial(r) ELSE reduced.base]
           /\ emptyResponses' =
                 [emptyResponses EXCEPT ![RequestIdentity(r)] = governed.counter]
           /\ IF governed.error # NoError
              THEN /\ Throw(r, governed.error)
                   /\ UNCHANGED <<requests, pending, yields>>
              ELSE IF BatchComplete(response) /\ items # <<>>
              THEN /\ Yield(r, Len(responses[r]) + 1, Head(items))
                   /\ pending' = [pending EXCEPT ![r] = Tail(items)]
                   /\ UNCHANGED <<requests, error>>
              ELSE /\ ContinueOrFinish(r, response.continue)
                   /\ UNCHANGED <<error, pending, yields>>
    /\ UNCHANGED <<kind, args, frame, options, result>>

(***************************************************************************)
(* queryFullRevisions                                                      *)
(***************************************************************************)
\* the entries of an object without the entry of key
RECURSIVE WithoutProperty(_, _)
WithoutProperty(entries, key) ==
    IF entries = <<>> THEN <<>>
    ELSE (IF Head(entries)[1] = key THEN <<>> ELSE <<Head(entries)>>)
         \o WithoutProperty(Tail(entries), key)

revisionWithPageEnumerable(revision, page) ==
    [k |-> "object", v |-> Append(revision.v, <<"pageOfRevision", page>>),
     pageOfRevision |-> page]

\* revisionWithPage( revision, page ): a copy of the revision, the page
\* attached under the symbol pageOfRevision, beside the entries
revisionWithPage(revision, page) ==
    [k |-> "object", v |-> revision.v, pageOfRevision |-> page]

missingRevisionOfVersion2(revision, response) ==
    [k |-> "object",
     v |-> IF HasOwnProperty(revision.v, "missing") THEN revision.v
           ELSE Append(revision.v, <<"missing", Bool(TRUE)>>),
     pageOfRevision |-> Undefined]

\* missingRevision( revision, response, query ); no page is attached
missingRevision(revision, response) ==
    LET formatversion2 == \/ response.batchcomplete.k = "boolean"
                          \/ isArray(response.pages)
        entries == IF HasOwnProperty(revision.v, "missing") THEN revision.v
                   ELSE Append(revision.v,
                               <<"missing",
                                 IF formatversion2 THEN Bool(TRUE) ELSE Str("")>>)
    IN  [k |-> "object", v |-> entries, pageOfRevision |-> Undefined]

\* for ( const revision of Object.values( query.badrevids || {} ) )
RECURSIVE MissingRevisions(_, _)
MissingRevisions(revisions, response) ==
    IF revisions = <<>> THEN <<>>
    ELSE <<missingRevision(Head(revisions), response)>>
         \o MissingRevisions(Tail(revisions), response)

\* for ( const revision of revisions || [] ) of one page
RECURSIVE PageRevisions(_, _)
PageRevisions(revisions, remainingPage) ==
    IF revisions = <<>> THEN <<>>
    ELSE <<revisionWithPage(Head(revisions), remainingPage)>>
         \o PageRevisions(Tail(revisions), remainingPage)

\* for ( const page of pages ) { const { revisions, ...remainingPage } = page; ... }
RECURSIVE PagesRevisions(_)
PagesRevisions(pages) ==
    IF pages = <<>> THEN <<>>
    ELSE LET page == Head(pages)
             revisions == GetProperty(page.v, "revisions")
             remainingPage == Obj(WithoutProperty(page.v, "revisions"))
         IN  (IF revisions = Undefined THEN <<>>
              ELSE PageRevisions(revisions.v, remainingPage))
             \o PagesRevisions(Tail(pages))

\* the batch queryFullRevisions builds out of one response, as yielded
RevisionsBatch(response, opts) ==
    LET batch == (IF response.badrevids = Undefined THEN <<>>
                  ELSE MissingRevisions(ObjectValues(response.badrevids.v),
                                        response))
                 \o PagesRevisions(ResponsePages(response))
    IN  IF opts.compareRevisions # "null"
        THEN Sort(batch, opts.compareRevisions)
        ELSE batch

\* the consumer calls next() on the generator queryFullRevisions returned
queryFullRevisionsNext(r) ==
    /\ kind[r] = "queryFullRevisions"
    /\ pc[r] \in {"start", "yielded"}
    /\ IF pc[r] = "start"
       THEN IF CheckedParams(r).error # NoError
            THEN /\ Throw(r, CheckedParams(r).error)
                 /\ UNCHANGED <<requests, frame, pending, yields>>
            ELSE /\ IssueRequest(r)
                 /\ frame' = [frame EXCEPT ![r].params = CheckedParams(r).params]
                 /\ UNCHANGED <<pending, yields, error>>
       ELSE IF pending[r] # <<>>
       THEN /\ Yield(r, Len(responses[r]), Head(pending[r]))
            /\ pending' = [pending EXCEPT ![r] = Tail(@)]
            /\ UNCHANGED <<requests, frame, error>>
       ELSE /\ ContinueOrFinish(r, continuation[r])
            /\ UNCHANGED <<pending, yields, frame, error>>
    /\ UNCHANGED <<kind, args, options, accumulator, continuation, result,
                   emptyResponses, responses>>

\* one response reaches the generator of queryFullRevisions, which awaits it
\* inside session.requestAndContinue
queryFullRevisionsResponse(r, response) ==
    /\ kind[r] = "queryFullRevisions"
    /\ Receives(r, response)
    /\ LET batch == RevisionsBatch(response, options[r])
           governed == Governed(r, Len(batch))
       IN  /\ emptyResponses' =
                 [emptyResponses EXCEPT ![RequestIdentity(r)] = governed.counter]
           /\ IF governed.error # NoError
              THEN /\ Throw(r, governed.error)
                   /\ UNCHANGED <<requests, pending, yields>>
              ELSE IF batch # <<>>
              THEN /\ Yield(r, Len(responses[r]) + 1, Head(batch))
                   /\ pending' = [pending EXCEPT ![r] = Tail(batch)]
                   /\ UNCHANGED <<requests, error>>
              ELSE /\ ContinueOrFinish(r, response.continue)
                   /\ UNCHANGED <<error, pending, yields>>
    /\ UNCHANGED <<kind, args, frame, options, accumulator, result>>

(***************************************************************************)
(* queryPotentialRevisionByRevisionId, queryFullRevisionByRevisionId       *)
(***************************************************************************)
\* for ( const revision of revisions || [] ) { if ( revisionId ===
\* revision.revid.toString() ) { return revisionWithPage( ... ); } }
RECURSIVE RevisionOfPage(_, _, _)
RevisionOfPage(revisions, remainingPage, revisionId) ==
    IF revisions = <<>> THEN Null
    ELSE IF revisionId = toString(GetProperty(Head(revisions).v, "revid"))
    THEN revisionWithPage(Head(revisions), remainingPage)
    ELSE RevisionOfPage(Tail(revisions), remainingPage, revisionId)

\* for ( const page of pages ) { const { revisions, ...remainingPage } = page; ... }
RECURSIVE RevisionOfPages(_, _)
RevisionOfPages(pages, revisionId) ==
    IF pages = <<>> THEN Null
    ELSE LET page == Head(pages)
             revisions == GetProperty(page.v, "revisions")
             remainingPage == Obj(WithoutProperty(page.v, "revisions"))
             found == IF revisions = Undefined THEN Null
                      ELSE RevisionOfPage(revisions.v, remainingPage, revisionId)
         IN  IF found # Null THEN found
             ELSE RevisionOfPages(Tail(pages), revisionId)

\* revisionId as a string already
getResponseRevisionByRevisionId(response, revisionId) ==
    LET bad == IF response.badrevids = Undefined THEN Undefined
               ELSE GetProperty(response.badrevids.v, revisionId)
    IN  IF bad # Undefined
        THEN missingRevision(bad, response)
        ELSE RevisionOfPages(ResponsePages(response), revisionId)

NoRevision ==
    [type |-> "Error", path |-> "",
     message |-> "API finished continuation without returning the revision"]

queryPotentialRevisionByRevisionIdNextNeverBreaks(r) ==
    /\ kind[r] = "queryPotentialRevisionByRevisionId"
    /\ pc[r] \in {"start", "yielded"}
    /\ IF pc[r] = "start"
       THEN StartCall(r)
       ELSE /\ ContinueOrFinish(r, continuation[r])
            /\ UNCHANGED <<frame, error>>
    /\ UNCHANGED <<kind, args, options, accumulator, pending, continuation,
                   result, emptyResponses, responses, yields>>

\* the consumer calls next() on the generator
\* queryPotentialRevisionByRevisionId returned: the first call runs it up to
\* its first request; a later one resumes it at the yield, where it breaks
\* if the revision yielded was not null, and else goes on with
\* session.requestAndContinue
queryPotentialRevisionByRevisionIdNext(r) ==
    /\ kind[r] = "queryPotentialRevisionByRevisionId"
    /\ pc[r] \in {"start", "yielded"}
    /\ IF pc[r] = "start"
       THEN StartCall(r)
       ELSE /\ IF yields[r][Len(yields[r])][2] # Null
               THEN /\ pc' = [pc EXCEPT ![r] = "done"]
                    /\ UNCHANGED requests
               ELSE ContinueOrFinish(r, continuation[r])
            /\ UNCHANGED <<frame, error>>
    /\ UNCHANGED <<kind, args, options, accumulator, pending, continuation,
                   result, emptyResponses, responses, yields>>

\* a response reaches the generator, which yields what it finds in it
queryPotentialRevisionByRevisionIdResponse(r, response) ==
    /\ kind[r] = "queryPotentialRevisionByRevisionId"
    /\ Receives(r, response)
    /\ Yield(r, Len(responses[r]) + 1,
             getResponseRevisionByRevisionId(response, toString(args[r].id)))
    /\ UNCHANGED <<kind, args, frame, options, accumulator, pending, requests,
                   error, result, emptyResponses>>

\* queryFullRevisionByRevisionId up to its first await
CallFullRevision(r) ==
    /\ kind[r] = "queryFullRevisionByRevisionId"
    /\ pc[r] = "start"
    /\ StartCall(r)
    /\ UNCHANGED <<kind, args, options, accumulator, pending, continuation,
                   result, emptyResponses, responses, yields>>

FullRevisionResponseExhausts(r, response) ==
    /\ kind[r] = "queryFullRevisionByRevisionId"
    /\ Receives(r, response)
    /\ LET revision ==
              getResponseRevisionByRevisionId(response, toString(args[r].id))
       IN  IF response.continue
           THEN /\ IssueRequest(r)
                /\ result' = [result EXCEPT ![r] =
                                 IF revision # Null THEN revision ELSE @]
                /\ UNCHANGED error
           ELSE IF revision # Null \/ result[r] # Undefined
           THEN /\ pc' = [pc EXCEPT ![r] = "returned"]
                /\ result' = [result EXCEPT ![r] =
                                 IF revision # Null THEN revision ELSE @]
                /\ UNCHANGED <<requests, error>>
           ELSE /\ Throw(r, NoRevision)
                /\ UNCHANGED <<requests, result>>
    /\ UNCHANGED <<kind, args, frame, options, accumulator, pending,
                   emptyResponses, yields>>

\* one turn of `for await ( const response of
\* session.requestAndContinue( params, options ) ) { ... }` of
\* queryFullRevisionByRevisionId, and the throw after the loop
FullRevisionResponse(r, response) ==
    /\ kind[r] = "queryFullRevisionByRevisionId"
    /\ Receives(r, response)
    /\ LET revision ==
              getResponseRevisionByRevisionId(response, toString(args[r].id))
       IN  IF revision # Null
           THEN /\ pc' = [pc EXCEPT ![r] = "returned"]
                /\ result' = [result EXCEPT ![r] = revision]
                /\ UNCHANGED <<requests, error>>
           ELSE IF response.continue
           THEN /\ IssueRequest(r)
                /\ UNCHANGED <<error, result>>
           ELSE /\ Throw(r, NoRevision)
                /\ UNCHANGED <<requests, result>>
    /\ UNCHANGED <<kind, args, frame, options, accumulator, pending,
                   emptyResponses, yields>>

(***************************************************************************)
(* The functions that are given a title, a page ID or a revision ID        *)
(***************************************************************************)
ByIdentifier ==
    {"queryPartialPageByTitle", "queryPartialPageByPageId",
     "queryFullPageByTitle", "queryFullPageByPageId",
     "queryPotentialRevisionByRevisionId", "queryFullRevisionByRevisionId"}

\* params as a caller may pass them: action and generator absent or given
CallerParams ==
    [action : {Undefined, Str("query"), Str("parse")},
     generator : {Undefined, Str("links")},
     ids : {Undefined}]

\* the page titled title with ID pageId, without revisions, with another
\* revision, or with the revision whose ID is pageId too
IdentifiedPages ==
    {Obj(<<<<"title", Str(title)>>, <<"pageid", Num(1)>>>>),
     Obj(<<<<"title", Str(title)>>, <<"pageid", Num(1)>>,
           <<"revisions", Arr(<<Obj(<<<<"revid", Num(2)>>>>)>>)>>>>),
     Obj(<<<<"title", Str(title)>>, <<"pageid", Num(1)>>,
           <<"revisions", Arr(<<Obj(<<<<"revid", Num(1)>>>>)>>)>>>>)}

IdentifierResponses ==
    {Response(pages, batchcomplete, continue) :
        pages \in {Undefined} \cup {Arr(<<page>>) : page \in IdentifiedPages},
        batchcomplete \in BOOLEAN, continue \in BOOLEAN}
    \cup {[Response(Undefined, TRUE, continue) EXCEPT
              !.badrevids = Obj(<<<<pageId, Obj(<<<<"revid", Num(1)>>>>)>>>>)] :
            continue \in BOOLEAN}

InitByIdentifier ==
    \E k \in ByIdentifier, params \in CallerParams :
        InitCallsWith(
            [r \in Requests |-> IF r = "request1" THEN k ELSE "none"],
            [r \in Requests |-> [NoArguments EXCEPT !.params = params]],
            [r \in Requests |-> DefaultOptions])

NextByIdentifier ==
    \/ \E r \in Requests : CallPartialPage(r)
    \/ \E r \in Requests : \E response \in IdentifierResponses :
            PartialPageResponse(r, response)
    \/ \E r \in Requests : CallFullPage(r)
    \/ \E r \in Requests : \E response \in IdentifierResponses :
            FullPageResponse(r, response)
    \/ \E r \in Requests : queryPotentialRevisionByRevisionIdNext(r)
    \/ \E r \in Requests : \E response \in IdentifierResponses :
            queryPotentialRevisionByRevisionIdResponse(r, response)
    \/ \E r \in Requests : CallFullRevision(r)
    \/ \E r \in Requests : \E response \in IdentifierResponses :
            FullRevisionResponse(r, response)

SpecByIdentifier == InitByIdentifier /\ [][NextByIdentifier]_vars

(***************************************************************************)
(* Specifications                                                          *)
(***************************************************************************)
\* partial views of pages 1 and 2, as a generator's responses bring them
PagePartials ==
    {Obj(<<<<"pageid", Num(1)>>, <<"v", Bool(TRUE)>>>>),
     Obj(<<<<"pageid", Num(1)>>, <<"v", Bool(FALSE)>>>>),
     Obj(<<<<"pageid", Num(1)>>, <<"links", Arr(<<Num(1)>>)>>>>),
     Obj(<<<<"pageid", Num(2)>>, <<"links", Arr(<<Num(2)>>)>>>>)}

\* the pages of one response: none, one, or two pages of different keys
PageLists ==
    {Undefined}
    \cup {Arr(<<p>>) : p \in PagePartials}
    \cup {Arr(<<pq[1], pq[2]>>) :
             pq \in {x \in PagePartials \X PagePartials :
                        PageKey(x[1]) # PageKey(x[2])}}

PagesResponses ==
    {Response(pages, batchcomplete, continue) :
        pages \in PageLists, batchcomplete \in BOOLEAN, continue \in BOOLEAN}

\* one queryFullPages call, no limit on empty responses
Init ==
    \E compare \in {"null", "pageid"} :
        InitCalls([r \in Requests |->
                      IF r = "request1" THEN "queryFullPages" ELSE "none"],
                  [r \in Requests |->
                      [DefaultOptions EXCEPT !.comparePages = compare]])

Next ==
    \/ \E r \in Requests : queryFullPagesNext(r)
    \/ \E r \in Requests, response \in PagesResponses :
            queryFullPagesResponse(r, response)

Spec == Init /\ [][Next]_vars

\* partial views of missing pages, which all have the page ID 0
\* (formatversion=2) or none (formatversion=1), and of the page with ID 1
MissingPage(t, extra) ==
    Obj(<<<<"pageid", Num(0)>>, <<"missing", Bool(TRUE)>>, <<"title", Str(t)>>>>
        \o extra)

MissingPageLists ==
    LET extraA == <<<<"extra", Str("a")>>>>
        extraB == <<<<"extra", Str("b")>>>>
        existing == Obj(<<<<"pageid", Num(1)>>, <<"title", Str("A")>>,
                          <<"extra", Str("c")>>>>)
        version1 == Obj(<<<<"title", Str("A")>>, <<"missing", Str("")>>,
                          <<"known", Str("")>>>>)
    IN  {Undefined,
         Arr(<<MissingPage("A", extraA)>>), Arr(<<MissingPage("B", extraB)>>),
         Arr(<<existing>>), Arr(<<version1>>),
         Arr(<<MissingPage("A", extraA), MissingPage("B", <<>>)>>),
         Arr(<<MissingPage("A", <<>>), MissingPage("B", extraB)>>),
         Arr(<<existing, MissingPage("A", <<>>)>>),
         Arr(<<MissingPage("B", <<>>), existing>>)}

MissingResponses ==
    {Response(pages, batchcomplete, continue) :
        pages \in MissingPageLists, batchcomplete \in BOOLEAN,
        continue \in BOOLEAN}

InitMissing ==
    InitCalls([r \in Requests |->
                  IF r = "request1" THEN "queryFullPages" ELSE "none"],
              [r \in Requests |-> DefaultOptions])

NextMissing ==
    \/ \E r \in Requests : queryFullPagesNext(r)
    \/ \E r \in Requests, response \in MissingResponses :
            queryFullPagesResponse(r, response)

\* one queryFullPages call on a generator that brings missing pages
SpecMissing == InitMissing /\ [][NextMissing]_vars

\* a limit on empty responses, as maxEmptyResponses( limit ) puts into options
MaxLimit == 2

LimitedOptions(limit) == [DefaultOptions EXCEPT !.limited = TRUE, !.limit = limit]

\* responses to a generator whose pages may or may not carry revisions, and to
\* a list of revision IDs some of which do not exist
GovernedPageLists ==
    {Undefined,
     Arr(<<Obj(<<<<"pageid", Num(1)>>>>)>>),
     Arr(<<Obj(<<<<"pageid", Num(1)>>,
                 <<"revisions", Arr(<<Obj(<<<<"revid", Num(1)>>>>)>>)>>>>)>>)}

GovernedResponses ==
    {Response(pages, batchcomplete, continue) :
        pages \in GovernedPageLists, batchcomplete \in BOOLEAN,
        continue \in BOOLEAN}
    \cup {[Response(Undefined, TRUE, continue) EXCEPT
              !.badrevids = Obj(<<<<"9", Obj(<<<<"revid", Num(9)>>>>)>>>>)] :
            continue \in BOOLEAN}

\* one queryFullPages or queryFullRevisions call with maxEmptyResponses( limit )
InitGoverned ==
    \E k \in {"queryFullPages", "queryFullRevisions"}, limit \in 0..MaxLimit :
        InitCalls([r \in Requests |-> IF r = "request1" THEN k ELSE "none"],
                  [r \in Requests |-> LimitedOptions(limit)])

NextGoverned ==
    \/ \E r \in Requests : queryFullPagesNext(r)
    \/ \E r \in Requests, response \in GovernedResponses :
            queryFullPagesResponse(r, response)
    \/ \E r \in Requests : queryFullRevisionsNext(r)
    \/ \E r \in Requests, response \in GovernedResponses :
            queryFullRevisionsResponse(r, response)

SpecGoverned == InitGoverned /\ [][NextGoverned]_vars

\* The responses of a call may go on without end.  The record the model
\* keeps of a call (the responses received, the items yielded, the number of
\* requests) holds MaxResponses requests at most: once it is full, and the
\* generator awaits a response, the record starts over with the request in
\* flight.  Nothing of the generator changes.
StreamGoesOn(r) ==
    /\ kind[r] \in {"queryFullPages", "queryFullRevisions"}
    /\ pc[r] = "awaiting"
    /\ requests[r] = MaxResponses
    /\ requests' = [requests EXCEPT ![r] = 1]
    /\ responses' = [responses EXCEPT ![r] = <<>>]
    /\ yields' = [yields EXCEPT ![r] = <<>>]
    /\ UNCHANGED <<kind, args, frame, options, pc, accumulator, pending,
                   continuation, error, result, emptyResponses>>

\* responses to queryFullPages whose pages hold no list, so that the batch
\* of a call does not grow without end
ListlessResponses ==
    {Response(pages, batchcomplete, continue) :
        pages \in {Undefined, Arr(<<Obj(<<<<"pageid", Num(1)>>>>)>>)},
        batchcomplete \in BOOLEAN, continue \in BOOLEAN}

\* the consumer pulls, or the transport answers
PullsAndAnswers ==
    \/ \E r \in Requests : queryFullPagesNext(r)
    \/ \E r \in Requests : \E response \in ListlessResponses :
            queryFullPagesResponse(r, response)
    \/ \E r \in Requests : queryFullRevisionsNext(r)
    \/ \E r \in Requests : \E response \in GovernedResponses :
            queryFullRevisionsResponse(r, response)

NextGovernedLive ==
    \/ PullsAndAnswers
    \/ \E r \in Requests : StreamGoesOn(r)

\* the consumer keeps pulling and the transport keeps answering
SpecGovernedLive ==
    InitGoverned /\ [][NextGovernedLive]_vars /\ WF_vars(PullsAndAnswers)

\* the responses of the generator "allpages" in a namespace: a batch of no
\* page or of one page
ConcurrentResponses ==
    {Response(pages, TRUE, continue) :
        pages \in {Undefined, Arr(<<Obj(<<<<"pageid", Num(1)>>>>)>>)},
        continue \in BOOLEAN}

\* two queryFullPages calls made with the same options object, both pulled
\* by the caller while the transport answers in any order
InitConcurrent ==
    \E limit \in 0..MaxLimit :
        InitCalls([r \in Requests |-> "queryFullPages"],
                  [r \in Requests |-> LimitedOptions(limit)])

NextConcurrent ==
    \/ \E r \in Requests : queryFullPagesNext(r)
    \/ \E r \in Requests, response \in ConcurrentResponses :
            queryFullPagesResponse(r, response)

SpecConcurrent == InitConcurrent /\ [][NextConcurrent]_vars

\* two queryFullPages calls on the same session at the same time, both
\* about page 1: the responses to the first bring its attribute a and its
\* links, the responses to the second its attribute b and other links
IsolatedResponses(r) ==
    LET attribute == IF r = "request1" THEN <<"a", Num(1)>> ELSE <<"b", Num(2)>>
        link == IF r = "request1" THEN Num(1) ELSE Num(2)
    IN  {Response(pages, batchcomplete, continue) :
            pages \in {Arr(<<Obj(<<<<"pageid", Num(1)>>, attribute>>)>>),
                       Arr(<<Obj(<<<<"pageid", Num(1)>>,
                                   <<"links", Arr(<<link>>)>>>>)>>)},
            batchcomplete \in BOOLEAN, continue \in BOOLEAN}

InitIsolated ==
    InitCalls([r \in Requests |-> "queryFullPages"],
              [r \in Requests |-> DefaultOptions])

NextIsolated ==
    \/ \E r \in Requests : queryFullPagesNext(r)
    \/ \E r \in Requests : \E response \in IsolatedResponses(r) :
            queryFullPagesResponse(r, response)

SpecIsolated == InitIsolated /\ [][NextIsolated]_vars

(***************************************************************************)
(* queryIncrementalPageByTitle, queryIncrementalPageByPageId, and the      *)
(* consumer of a generator                                                 *)
(***************************************************************************)
queryIncrementalPageNextNeverBreaks(r) ==
    /\ kind[r] \in {"queryIncrementalPageByTitle", "queryIncrementalPageByPageId"}
    /\ pc[r] \in {"start", "yielded"}
    /\ IF pc[r] = "start"
       THEN StartCall(r)
       ELSE /\ ContinueOrFinish(r, continuation[r])
            /\ UNCHANGED <<frame, error>>
    /\ UNCHANGED <<kind, args, options, accumulator, pending, continuation,
                   result, emptyResponses, responses, yields>>

\* the consumer calls next() on the generator queryIncrementalPageBy...
\* returned: the first call runs it up to its first request; a later one
\* resumes it at the yield, where it breaks if the response carried
\* batchcomplete, and else goes on with session.requestAndContinue
queryIncrementalPageNext(r) ==
    /\ kind[r] \in {"queryIncrementalPageByTitle", "queryIncrementalPageByPageId"}
    /\ pc[r] \in {"start", "yielded"}
    /\ IF pc[r] = "start"
       THEN StartCall(r)
       ELSE /\ IF BatchComplete(responses[r][Len(responses[r])])
               THEN /\ pc' = [pc EXCEPT ![r] = "done"]
                    /\ UNCHANGED requests
               ELSE ContinueOrFinish(r, continuation[r])
            /\ UNCHANGED <<frame, error>>
    /\ UNCHANGED <<kind, args, options, accumulator, pending, continuation,
                   result, emptyResponses, responses, yields>>

queryIncrementalPageResponseSkipsNull(r, response) ==
    /\ kind[r] \in {"queryIncrementalPageByTitle", "queryIncrementalPageByPageId"}
    /\ Receives(r, response)
    /\ LET page == IF kind[r] = "queryIncrementalPageByTitle"
                   THEN getResponsePageByTitle(response, args[r].title)
                   ELSE getResponsePageByPageId(response, toString(args[r].id))
       IN  IF page # Null
           THEN /\ Yield(r, Len(responses[r]) + 1, page)
                /\ UNCHANGED requests
           ELSE /\ IF BatchComplete(response)
                   THEN /\ pc' = [pc EXCEPT ![r] = "done"]
                        /\ UNCHANGED requests
                   ELSE ContinueOrFinish(r, response.continue)
                /\ UNCHANGED yields
    /\ UNCHANGED <<kind, args, frame, options, accumulator, pending,
                   error, result, emptyResponses>>

\* a response reaches the generator, which yields the page it finds in it
queryIncrementalPageResponse(r, response) ==
    /\ kind[r] \in {"queryIncrementalPageByTitle", "queryIncrementalPageByPageId"}
    /\ Receives(r, response)
    /\ Yield(r, Len(responses[r]) + 1,
             IF kind[r] = "queryIncrementalPageByTitle"
             THEN getResponsePageByTitle(response, args[r].title)
             ELSE getResponsePageByPageId(response, toString(args[r].id)))
    /\ UNCHANGED <<kind, args, frame, options, accumulator, pending, requests,
                   error, result, emptyResponses>>

Generators ==
    {"queryIncrementalPageByTitle", "queryIncrementalPageByPageId",
     "queryPotentialRevisionByRevisionId", "queryFullPages",
     "queryFullRevisions"}

\* the consumer stops iterating: it leaves its for await loop, which calls
\* return() on the generator suspended at a yield (or not started yet)
ConsumerStops(r) ==
    /\ kind[r] \in Generators
    /\ pc[r] \in {"start", "yielded"}
    /\ pc' = [pc EXCEPT ![r] = "stopped"]
    /\ UNCHANGED <<kind, args, frame, options, accumulator, pending,
                   continuation, requests, error, result, emptyResponses,
                   responses, yields>>

\* one generator and its consumer
InitPull ==
    \E k \in Generators :
        InitCalls([r \in Requests |-> IF r = "request1" THEN k ELSE "none"],
                  [r \in Requests |-> DefaultOptions])

NextPull ==
    \/ \E r \in Requests : queryIncrementalPageNext(r)
    \/ \E r \in Requests : \E response \in IdentifierResponses :
            queryIncrementalPageResponse(r, response)
    \/ \E r \in Requests : queryPotentialRevisionByRevisionIdNext(r)
    \/ \E r \in Requests : \E response \in IdentifierResponses :
            queryPotentialRevisionByRevisionIdResponse(r, response)
    \/ \E r \in Requests : queryFullPagesNext(r)
    \/ \E r \in Requests : \E response \in IdentifierResponses :
            queryFullPagesResponse(r, response)
    \/ \E r \in Requests : queryFullRevisionsNext(r)
    \/ \E r \in Requests : \E response \in IdentifierResponses :
            queryFullRevisionsResponse(r, response)
    \/ \E r \in Requests : ConsumerStops(r)

SpecPull == InitPull /\ [][NextPull]_vars

\* one call for a single page, or one queryFullPages or queryFullRevisions
\* call with maxEmptyResponses( limit ), up to its end
SinglePage ==
    {"queryIncrementalPageByTitle", "queryIncrementalPageByPageId",
     "queryFullPageByTitle", "queryFullPageByPageId"}

InitTerminal ==
    \/ \E k \in SinglePage :
        InitCalls([r \in Requests |-> IF r = "request1" THEN k ELSE "none"],
                  [r \in Requests |-> DefaultOptions])
    \/ InitGoverned

NextTerminal ==
    \/ \E r \in Requests : queryIncrementalPageNext(r)
    \/ \E r \in Requests : \E response \in IdentifierResponses :
            queryIncrementalPageResponse(r, response)
    \/ \E r \in Requests : CallFullPage(r)
    \/ \E r \in Requests : \E response \in IdentifierResponses :
            FullPageResponse(r, response)
    \/ NextGoverned

SpecTerminal == InitTerminal /\ [][NextTerminal]_vars

\* params of a queryFullPages or queryFullRevisions call: each of titles,
\* pageids, revids, generator and list given or not
GeneratorParams ==
    [action : {Undefined},
     generator : {Undefined, Str("allpages")},
     titles : {Undefined, Str(title)},
     pageids : {Undefined, Num(1)},
     revids : {Undefined, Num(1)},
     list : {Undefined, Str("allpages")}]

\* one queryFullPages or queryFullRevisions call with any of these params
InitParams ==
    \E k \in {"queryFullPages", "queryFullRevisions"}, params \in GeneratorParams :
        InitCallsWith(
            [r \in Requests |-> IF r = "request1" THEN k ELSE "none"],
            [r \in Requests |-> [NoArguments EXCEPT !.params = params]],
            [r \in Requests |-> DefaultOptions])

NextParams ==
    \/ \E r \in Requests : queryFullPagesNext(r)
    \/ \E r \in Requests : \E response \in ConcurrentResponses :
            queryFullPagesResponse(r, response)
    \/ \E r \in Requests : queryFullRevisionsNext(r)
    \/ \E r \in Requests : \E response \in ConcurrentResponses :
            queryFullRevisionsResponse(r, response)

SpecParams == InitParams /\ [][NextParams]_vars

\* query.pages of format version 2 (a list) and of format version 1 (keyed
\* by page ID), the pages holding revisions
ListedPage ==
    Arr(<<Obj(<<<<"pageid", Num(1)>>,
                <<"revisions", Arr(<<Obj(<<<<"revid", Num(3)>>>>),
                                     Obj(<<<<"revid", Num(1)>>>>)>>)>>>>)>>)

KeyedPage ==
    Obj(<<<<"2", Obj(<<<<"pageid", Num(2)>>,
                       <<"revisions", Arr(<<Obj(<<<<"revid", Num(2)>>>>)>>)>>>>)>>>>)

\* query.badrevids as MediaWiki returns it, and with "missing" already there
BadRevision == Obj(<<<<pageId, Obj(<<<<"revid", Num(1)>>>>)>>>>)

BadRevisionMissing ==
    Obj(<<<<pageId, Obj(<<<<"revid", Num(1)>>, <<"missing", Str("")>>>>)>>>>)

\* a response of either format version: [pages, badrevids, batchcomplete]
RevisionQueries ==
    [pages : {Undefined, ListedPage}, badrevids : {Undefined, BadRevision},
     batchcomplete : {Undefined, Bool(TRUE)}]
    \cup {[pages |-> Undefined, badrevids |-> BadRevisionMissing,
            batchcomplete |-> Bool(TRUE)],
          [pages |-> KeyedPage, badrevids |-> Undefined,
           batchcomplete |-> Str("")],
          [pages |-> Undefined, badrevids |-> BadRevision,
           batchcomplete |-> Str("")],
          [pages |-> KeyedPage, badrevids |-> BadRevision,
           batchcomplete |-> Undefined]}

RevisionResponses ==
    {[Response(q.pages, FALSE, continue) EXCEPT
         !.badrevids = q.badrevids, !.batchcomplete = q.batchcomplete] :
        q \in RevisionQueries, continue \in BOOLEAN}

\* one call that returns revisions
InitRevisions ==
    \E k \in {"queryPotentialRevisionByRevisionId",
               "queryFullRevisionByRevisionId", "queryFullRevisions"},
       compare \in {"null", "revid"} :
        /\ k # "queryFullRevisions" => compare = "null"
        /\ InitCalls([r \in Requests |-> IF r = "request1" THEN k ELSE "none"],
                     [r \in Requests |->
                         [DefaultOptions EXCEPT !.compareRevisions = compare]])

NextRevisions ==
    \/ \E r \in Requests : queryPotentialRevisionByRevisionIdNext(r)
    \/ \E r \in Requests : \E response \in RevisionResponses :
            queryPotentialRevisionByRevisionIdResponse(r, response)
    \/ \E r \in Requests : CallFullRevision(r)
    \/ \E r \in Requests : \E response \in RevisionResponses :
            FullRevisionResponse(r, response)
    \/ \E r \in Requests : queryFullRevisionsNext(r)
    \/ \E r \in Requests : \E response \in RevisionResponses :
            queryFullRevisionsResponse(r, response)

SpecRevisions == InitRevisions /\ [][NextRevisions]_vars

(***************************************************************************)
(* queryFullPageByTitle / queryFullPageByPageId given a callback of the    *)
(* caller as m3api-query/mergeValues                                       *)
(***************************************************************************)
\* where the partial pages differ, and the values they hold there: an
\* attribute a of the page is a scalar, an array, or an object with a
\* member b
CallbackPaths == {<<"x">>, <<"a">>, <<"a", "b">>}

CallbackLeaves ==
    {Null, Num(1), Num(2), Str("s"), Arr(<<Num(1)>>), Obj(<<>>)}

CallbackPartials ==
    {Obj(<<<<"title", Str(title)>>, <<"pageid", Num(1)>>, Nested(path, leaf)>>) :
        path \in CallbackPaths, leaf \in CallbackLeaves}

CallbackResponses ==
    {Response(pages, batchcomplete, continue) :
        pages \in {Arr(<<page>>) : page \in CallbackPartials} \cup {Undefined},
        batchcomplete \in BOOLEAN, continue \in BOOLEAN}

InitCallback ==
    \E k \in {"queryFullPageByTitle", "queryFullPageByPageId"} :
        InitCalls([r \in Requests |-> IF r = "request1" THEN k ELSE "none"],
                  [r \in Requests |->
                      [DefaultOptions EXCEPT !.mergeValues = "customMergeValues"]])

NextCallback ==
    \/ \E r \in Requests : CallFullPage(r)
    \/ \E r \in Requests, response \in CallbackResponses :
            FullPageResponse(r, response)

SpecCallback == InitCallback /\ [][NextCallback]_vars

(***************************************************************************)
(* The same pages as an array (formatversion=2) and as an object keyed by  *)
(* page ID (formatversion=1)                                               *)
(***************************************************************************)
\* pages of a response: distinct page IDs and titles, with and without
\* revisions
ShapedPages ==
    {Obj(<<<<"pageid", Num(1)>>, <<"title", Str("T")>>,
           <<"revisions", Arr(<<Obj(<<<<"revid", Num(1)>>>>)>>)>>>>),
     Obj(<<<<"pageid", Num(2)>>, <<"title", Str("U")>>,
           <<"revisions", Arr(<<Obj(<<<<"revid", Num(2)>>>>),
                                Obj(<<<<"revid", Num(3)>>>>)>>)>>>>),
     Obj(<<<<"pageid", Num(3)>>, <<"title", Str("V")>>>>)}

\* the lists of such pages, no page twice, in every order
ShapedLists ==
    {list \in UNION {[1..n -> ShapedPages] : n \in 0..Cardinality(ShapedPages)} :
        \A i, j \in 1..Len(list) : list[i] = list[j] => i = j}

\* the object keyed by page ID that holds the pages of the list: its
\* entries in the order in which JavaScript enumerates an object whose keys
\* are integers, ascending
KeyedByPageId(list) ==
    LET sorted == Sort(list, "pageid")
    IN  [i \in 1..Len(sorted) |->
            <<toString(GetProperty(sorted[i].v, "pageid")), sorted[i]>>]

\* query.pages of the list in the shape asked for
Shaped(list, shape) ==
    IF shape = "array" THEN Arr(list) ELSE Obj(KeyedByPageId(list))

Lookups ==
    {"getResponsePageByTitle", "getResponsePageByPageId",
     "getResponseRevisionByRevisionId"}

\* one of the lookups called with a response, and returned
Lookup(r) ==
    /\ kind[r] \in Lookups
    /\ pc[r] = "start"
    /\ LET response == Response(Shaped(args[r].pages, args[r].shape), TRUE, FALSE)
       IN  /\ responses' = [responses EXCEPT ![r] = <<response>>]
           /\ result' = [result EXCEPT ![r] =
                 CASE kind[r] = "getResponsePageByTitle" ->
                        getResponsePageByTitle(response, args[r].title)
                   [] kind[r] = "getResponsePageByPageId" ->
                        getResponsePageByPageId(response, toString(args[r].id))
                   [] kind[r] = "getResponseRevisionByRevisionId" ->
                        getResponseRevisionByRevisionId(response,
                                                        toString(args[r].id))]
    /\ pc' = [pc EXCEPT ![r] = "returned"]
    /\ UNCHANGED <<kind, args, frame, options, accumulator, pending,
                   continuation, requests, error, emptyResponses, yields>>

\* the same lookup called twice for the same pages: once with the pages as an
\* array, once with the pages as an object
InitShapes ==
    \E k \in Lookups, list \in ShapedLists, t \in {"T", "U", "V", "W"},
       id \in {Num(n) : n \in 1..4} \cup {Str("2")} :
        InitCallsWith(
            [r \in Requests |-> k],
            [r \in Requests |->
                [title |-> t, id |-> id, params |-> NoParams, pages |-> list,
                 shape |-> IF r = "request1" THEN "array" ELSE "object"]],
            [r \in Requests |-> DefaultOptions])

NextShapes == \E r \in Requests : Lookup(r)

SpecShapes == InitShapes /\ [][NextShapes]_vars

(***************************************************************************)
(* Objects by reference.  The objects of JavaScript are held in a heap, a  *)
(* sequence of objects (by their entries); an object is referred to by its *)
(* place in the heap, and a member that is an object holds such a          *)
(* reference.  Arrays stay values: [ ...baseValue, ...incrementalValue ]   *)
(* makes a new array, and no array is ever changed in place.               *)
(***************************************************************************)
Ref(address) == [k |-> "ref", v |-> address]

isRef(value) == value.k = "ref"

\* the objects of a parsed JSON value put into the heap, each a new object:
\* [heap, value], value the reference to it (or the value, if no object)
RECURSIVE Alloc(_, _)
RECURSIVE AllocEntries(_, _)
AllocEntries(heap, entries) ==
    IF entries = <<>> THEN [heap |-> heap, entries |-> <<>>]
    ELSE LET first == Alloc(heap, Head(entries)[2])
             rest == AllocEntries(first.heap, Tail(entries))
         IN  [heap |-> rest.heap,
              entries |-> <<<<Head(entries)[1], first.value>>>> \o rest.entries]

Alloc(heap, value) ==
    IF isObject(value)
    THEN LET inner == AllocEntries(heap, value.v)
         IN  [heap |-> Append(inner.heap, inner.entries),
              value |-> Ref(Len(inner.heap) + 1)]
    ELSE [heap |-> heap, value |-> value]

\* the value a reference stands for in the heap (a value stands for itself)
RECURSIVE Deref(_, _)
Deref(heap, value) ==
    IF isRef(value)
    THEN Obj([i \in 1..Len(heap[value.v]) |->
                <<heap[value.v][i][1], Deref(heap, heap[value.v][i][2])>>])
    ELSE value

\* mergeObjects( base, incremental, mergeValues, basePath ) with the default
\* mergeValues, on the heap: base the place of the object merged into,
\* entries what is left of Object.entries( incremental ).  [heap, error]
RECURSIVE mergeObjectsByReference(_, _, _, _)
mergeObjectsByReference(heap, base, entries, basePath) ==
    IF entries = <<>> THEN [heap |-> heap, error |-> NoError]
    ELSE
    LET key == Head(entries)[1]
        incrementalValue == Head(entries)[2]
    IN  IF ~HasOwnProperty(heap[base], key)
        THEN mergeObjectsByReference(
                [heap EXCEPT ![base] = SetProperty(@, key, incrementalValue)],
                base, Tail(entries), basePath)
        ELSE
        LET baseValue == GetProperty(heap[base], key)
            path == PathOf(basePath, key)
        IN  IF isRef(baseValue) /\ isRef(incrementalValue)
            THEN LET inner == mergeObjectsByReference(
                                 heap, baseValue.v, heap[incrementalValue.v], path)
                 IN  IF inner.error # NoError THEN inner
                     ELSE mergeObjectsByReference(inner.heap, base,
                                                  Tail(entries), basePath)
            ELSE IF isArray(baseValue) /\ isArray(incrementalValue)
            THEN mergeObjectsByReference(
                    [heap EXCEPT ![base] =
                        SetProperty(@, key,
                                    Arr(Concat(baseValue.v, incrementalValue.v)))],
                    base, Tail(entries), basePath)
            ELSE IF StrictEquals(baseValue, incrementalValue)
            THEN mergeObjectsByReference(heap, base, Tail(entries), basePath)
            ELSE LET m == mergeValues(Deref(heap, baseValue),
                                      Deref(heap, incrementalValue), path)
                 IN  IF m.error # NoError
                     THEN [heap |-> heap, error |-> m.error]
                     ELSE mergeObjectsByReference(
                             [heap EXCEPT ![base] = SetProperty(@, key, baseValue)],
                             base, Tail(entries), basePath)

\* queryFullPageByTitle / queryFullPageByPageId up to the first await, the
\* accumulator being the object initial() makes
CallFullPageByReference(r) ==
    /\ kind[r] \in {"queryFullPageByTitle", "queryFullPageByPageId"}
    /\ pc[r] = "start"
    /\ accumulator' = [accumulator EXCEPT ![r] =
                          [heap |-> <<initialPage>>, page |-> Ref(1)]]
    /\ StartCall(r)
    /\ UNCHANGED <<kind, args, options, pending, continuation, result,
                   emptyResponses, responses, yields>>

\* one turn of the loop of queryFullPageByTitle / queryFullPageByPageId:
\* the response is parsed into objects of its own, and the reducer merges
\* the page found in it into the accumulator.  pending[r] keeps the
\* references to the pages of the responses, in response order
FullPageResponseByReference(r, response) ==
    /\ kind[r] \in {"queryFullPageByTitle", "queryFullPageByPageId"}
    /\ Receives(r, response)
    /\ LET incr == IF kind[r] = "queryFullPageByTitle"
                   THEN getResponsePageByTitle(response, title)
                   ELSE getResponsePageByPageId(response, pageId)
           parsed == Alloc(accumulator[r].heap, incr)
           reduced == IF incr = Null
                      THEN [heap |-> parsed.heap, error |-> EntriesOfNull]
                      ELSE mergeObjectsByReference(
                              parsed.heap, accumulator[r].page.v,
                              parsed.heap[parsed.value.v], "")
       IN  /\ accumulator' = [accumulator EXCEPT ![r].heap = reduced.heap]
           /\ pending' = [pending EXCEPT ![r] = Append(@, parsed.value)]
           /\ IF reduced.error # NoError
              THEN /\ Throw(r, reduced.error)
                   /\ UNCHANGED <<requests, result>>
              ELSE IF BatchComplete(response)
              THEN /\ pc' = [pc EXCEPT ![r] = "returned"]
                   /\ result' = [result EXCEPT ![r] =
                                    Deref(reduced.heap, accumulator[r].page)]
                   /\ UNCHANGED <<requests, error>>
              ELSE IF response.continue
              THEN /\ IssueRequest(r)
                   /\ UNCHANGED <<error, result>>
              ELSE /\ Throw(r, NoBatch)
                   /\ UNCHANGED <<requests, result>>
    /\ UNCHANGED <<kind, args, frame, options, emptyResponses, yields>>

\* partial pages with an object as a member, and with an object in it
SharingPartials ==
    {Obj(<<<<"title", Str(title)>>, <<"pageid", Num(1)>>, member>>) :
        member \in {<<"x", Num(1)>>, <<"x", Arr(<<Num(1)>>)>>,
                    <<"a", Obj(<<>>)>>,
                    <<"a", Obj(<<<<"b", Num(1)>>>>)>>,
                    <<"a", Obj(<<<<"c", Num(2)>>>>)>>,
                    <<"a", Obj(<<<<"b", Obj(<<<<"d", Num(1)>>>>)>>>>)>>,
                    <<"a", Obj(<<<<"b", Obj(<<<<"e", Num(2)>>>>)>>>>)>>}}

SharingResponses ==
    {Response(pages, batchcomplete, continue) :
        pages \in {Arr(<<page>>) : page \in SharingPartials} \cup {Undefined},
        batchcomplete \in BOOLEAN, continue \in BOOLEAN}

NextSharing ==
    \/ \E r \in Requests : CallFullPageByReference(r)
    \/ \E r \in Requests, response \in SharingResponses :
            FullPageResponseByReference(r, response)

\* one queryFullPageByTitle or queryFullPageByPageId call, its objects by
\* reference
SpecSharing == InitFullPage /\ [][NextSharing]_vars

(***************************************************************************)
(* Properties of queryFullPageByTitle / queryFullPageByPageId and of the   *)
(* merge, stated over the history of a call (SpecFullPage)                 *)
(***************************************************************************)
FullPageCalls ==
    {r \in Requests : kind[r] \in {"queryFullPageByTitle", "queryFullPageByPageId"}}

\* the page a call of kind k is about, as the response holds it
TargetPage(k, response) ==
    IF k = "queryFullPageByTitle"
    THEN getResponsePageByTitle(response, title)
    ELSE getResponsePageByPageId(response, pageId)

\* the partial pages call r has received, in response order
Partials(r, rs) == [i \in 1..Len(rs) |-> TargetPage(kind[r], rs[i])]

\* partials[1], ..., partials[n] merged into base one after the other
RECURSIVE DeepMerge(_, _)
DeepMerge(base, partials) ==
    IF partials = <<>> THEN base
    ELSE DeepMerge(mergeObjects(base, Head(partials).v, "mergeValues", "").base,
                   Tail(partials))

\* value.path[1].path[2]...., Undefined where the path leaves the value
RECURSIVE ValueAt(_, _)
ValueAt(value, path) ==
    IF path = <<>> THEN value
    ELSE IF ~isObject(value) THEN Undefined
    ELSE ValueAt(GetProperty(value.v, Head(path)), Tail(path))

\* path[1].path[2]. ... .path[n]
RECURSIVE Dotted(_)
Dotted(path) ==
    IF Len(path) = 1 THEN path[1] ELSE path[1] \o "." \o Dotted(Tail(path))

\* the arrays among values, concatenated in order
RECURSIVE Concatenation(_)
Concatenation(values) ==
    IF values = <<>> THEN <<>>
    ELSE (IF isArray(Head(values)) THEN Head(values).v ELSE <<>>)
         \o Concatenation(Tail(values))

\* no array with an element anywhere in the value, nested objects included
RECURSIVE NoElements(_)
NoElements(value) ==
    IF isArray(value) THEN value.v = <<>>
    ELSE IF isObject(value)
    THEN \A i \in 1..Len(value.v) : NoElements(value.v[i][2])
    ELSE TRUE

IsScalar(value) == value.k \in {"null", "boolean", "number", "string"}

\* every merge of the call so far went through
MergesSucceeded(r) ==
    /\ pc[r] \in {"awaiting", "returned", "failed"}
    /\ error[r] \in {NoError, NoBatch}

\* C7: queryFullPageByTitle and queryFullPageByPageId return only once a
\* response carrying batchcomplete has been reduced (the last response pulled
\* is the first to carry it), and return the merge, in response order, of the
\* target page of every response pulled.
C7_ReturnsMergeAtBatchComplete ==
    \A r \in FullPageCalls :
        pc[r] = "returned" =>
            LET n == Len(responses[r]) IN
            /\ n >= 1
            /\ n = requests[r]
            /\ responses[r][n].batchcomplete # Undefined
            /\ \A i \in 1..(n - 1) : responses[r][i].batchcomplete = Undefined
            /\ \A i \in 1..n : TargetPage(kind[r], responses[r][i]) # Null
            /\ result[r] = Obj(DeepMerge(<<>>, Partials(r, responses[r])))

\* a call returned after several responses, with more than the last one's data
C7_Witness ==
    \E r \in FullPageCalls :
        /\ pc[r] = "returned"
        /\ Len(responses[r]) = 3
        /\ \A i \in 1..3 : result[r] # TargetPage(kind[r], responses[r][i])

\* C8 as stated: merging an entity into an accumulator that equals it leaves
\* the accumulator as it is, for every entity.
C8_IdempotentForEveryEntity ==
    [][\A r \in FullPageCalls :
        LET page == TargetPage(kind[r], responses'[r][2]) IN
        (/\ Len(responses[r]) = 1
         /\ Len(responses'[r]) = 2
         /\ page # Null
         /\ accumulator[r] = page.v)
        => /\ error'[r] \in {NoError, NoBatch}
           /\ accumulator'[r] = accumulator[r]]_vars

\* C8, amended: merging an entity into an accumulator that equals it leaves
\* the accumulator as it is and raises nothing, for every entity none of
\* whose arrays (at any depth of nested objects) has an element.
C8_IdempotentWithoutArrayElements ==
    [][\A r \in FullPageCalls :
        LET page == TargetPage(kind[r], responses'[r][2]) IN
        (/\ Len(responses[r]) = 1
         /\ Len(responses'[r]) = 2
         /\ page # Null
         /\ accumulator[r] = page.v
         /\ NoElements(page))
        => /\ error'[r] \in {NoError, NoBatch}
           /\ accumulator'[r] = accumulator[r]]_vars

\* the same page, holding a boolean four objects deep, was merged twice
C8_Witness ==
    \E r \in FullPageCalls :
        /\ Len(responses[r]) = 2
        /\ MergesSucceeded(r)
        /\ TargetPage(kind[r], responses[r][1]) = TargetPage(kind[r], responses[r][2])
        /\ ValueAt(Obj(accumulator[r]), <<"a", "b", "c", "d">>) = Bool(TRUE)
        /\ accumulator[r] = TargetPage(kind[r], responses[r][1]).v

\* C9: while the merges succeed, an attribute that is an array in every
\* partial that has it holds the concatenation of those arrays, in the order
\* of the partials, nothing dropped and nothing de-duplicated.
C9_ArraysConcatenatedInOrder ==
    \A r \in FullPageCalls : \A path \in AttributePaths :
        LET partials == Partials(r, responses[r])
            values == [i \in 1..Len(partials) |-> ValueAt(partials[i], path)]
        IN  (/\ MergesSucceeded(r)
             /\ \A i \in 1..Len(values) : values[i] = Undefined \/ isArray(values[i])
             /\ \E i \in 1..Len(values) : isArray(values[i]))
            => ValueAt(Obj(accumulator[r]), path) = Arr(Concatenation(values))

\* three partials brought [1], [2], [1]: the accumulator holds [1, 2, 1]
C9_Witness ==
    \E r \in FullPageCalls :
        /\ MergesSucceeded(r)
        /\ Len(responses[r]) = 3
        /\ \A i \in 1..3 :
              isArray(ValueAt(TargetPage(kind[r], responses[r][i]), <<"a", "b", "c", "d">>))
        /\ ValueAt(Obj(accumulator[r]), <<"a", "b", "c", "d">>)
              = Arr(<<Num(1), Num(2), Num(1)>>)

\* C11: with the default mergeValues, when the accumulator and the incremental
\* page hold different strings, or different numbers, at the same path (at
\* the top or nested four objects deep), the merge raises nothing and the
\* accumulator keeps the earlier value.
C11_SameKindKeepsEarlier ==
    [][\A r \in FullPageCalls : \A path \in AttributePaths :
        LET n == Len(responses'[r])
            b == ValueAt(Obj(accumulator[r]), path)
            i == ValueAt(TargetPage(kind[r], responses'[r][n]), path)
        IN  (/\ Len(responses[r]) >= 1
             /\ n = Len(responses[r]) + 1
             /\ b.k = i.k /\ b.k \in {"string", "number"}
             /\ b.v # i.v)
            => /\ error'[r] \in {NoError, NoBatch}
               /\ ValueAt(Obj(accumulator'[r]), path) = b]_vars

\* "s" then "t" four objects deep: the call goes on, the accumulator holds "s"
C11_Witness ==
    \E r \in FullPageCalls :
        /\ MergesSucceeded(r)
        /\ Len(responses[r]) = 2
        /\ ValueAt(TargetPage(kind[r], responses[r][1]), <<"a", "b", "c", "d">>) = Str("s")
        /\ ValueAt(TargetPage(kind[r], responses[r][2]), <<"a", "b", "c", "d">>) = Str("t")
        /\ ValueAt(Obj(accumulator[r]), <<"a", "b", "c", "d">>) = Str("s")

\* C10 as stated: with the default mergeValues, two scalars at the same path
\* that differ in type or in value raise an error naming the dotted path.
C10_EveryScalarDifferenceRaises ==
    [][\A r \in FullPageCalls : \A path \in AttributePaths :
        LET n == Len(responses'[r])
            b == ValueAt(Obj(accumulator[r]), path)
            i == ValueAt(TargetPage(kind[r], responses'[r][n]), path)
        IN  (/\ Len(responses[r]) >= 1
             /\ n = Len(responses[r]) + 1
             /\ IsScalar(b) /\ IsScalar(i)
             /\ (b.k # i.k \/ b.v # i.v))
            => /\ pc'[r] = "failed"
               /\ error'[r].type = "Error"
               /\ error'[r].path = Dotted(path)]_vars

\* C10, amended: with the default mergeValues, two scalars at the same path
\* that differ in type, or are booleans that differ in value, raise an error
\* naming the dotted path of the attribute.
C10_TypeOrBooleanDifferenceRaises ==
    [][\A r \in FullPageCalls : \A path \in AttributePaths :
        LET n == Len(responses'[r])
            b == ValueAt(Obj(accumulator[r]), path)
            i == ValueAt(TargetPage(kind[r], responses'[r][n]), path)
        IN  (/\ Len(responses[r]) >= 1
             /\ n = Len(responses[r]) + 1
             /\ IsScalar(b) /\ IsScalar(i)
             /\ (b.k # i.k \/ (b.k = "boolean" /\ b.v # i.v)))
            => /\ pc'[r] = "failed"
               /\ error'[r].type = "Error"
               /\ error'[r].path = Dotted(path)]_vars

\* true then false four objects deep: the call failed naming a.b.c.d
C10_Witness ==
    \E r \in FullPageCalls :
        /\ pc[r] = "failed"
        /\ Len(responses[r]) = 2
        /\ ValueAt(TargetPage(kind[r], responses[r][1]), <<"a", "b", "c", "d">>) = Bool(TRUE)
        /\ ValueAt(TargetPage(kind[r], responses[r][2]), <<"a", "b", "c", "d">>) = Bool(FALSE)
        /\ error[r].path = "a.b.c.d"

(***************************************************************************)
(* Properties of queryFullPages and queryFullRevisions, stated over the    *)
(* history of a call (Spec, SpecGoverned, SpecConcurrent)                  *)
(***************************************************************************)
GovernedCalls ==
    {r \in Requests : /\ kind[r] \in {"queryFullPages", "queryFullRevisions"}
                      /\ options[r].limited}

\* the number of pages (queryFullPages) or revisions (queryFullRevisions) a
\* response holds
Entities(k, response) ==
    IF k = "queryFullPages"
    THEN Len(ResponsePages(response))
    ELSE Len(RevisionsBatch(response, DefaultOptions))

\* the length of the run of empty responses rs ends with
RECURSIVE TrailingEmpty(_, _)
TrailingEmpty(k, rs) ==
    IF rs = <<>> \/ Entities(k, rs[Len(rs)]) > 0 THEN 0
    ELSE 1 + TrailingEmpty(k, SubSeq(rs, 1, Len(rs) - 1))

\* the length of the longest run of consecutive empty responses in rs
RECURSIVE LongestEmptyRun(_, _)
LongestEmptyRun(k, rs) ==
    IF rs = <<>> THEN 0
    ELSE LET before == LongestEmptyRun(k, SubSeq(rs, 1, Len(rs) - 1))
             run == TrailingEmpty(k, rs)
         IN  IF run > before THEN run ELSE before

\* the number of empty responses in rs
RECURSIVE TotalEmpty(_, _)
TotalEmpty(k, rs) ==
    IF rs = <<>> THEN 0
    ELSE (IF Entities(k, Head(rs)) = 0 THEN 1 ELSE 0) + TotalEmpty(k, Tail(rs))

\* C1: with a limit L configured, a queryFullPages or queryFullRevisions call
\* that has received L + 1 consecutive empty responses has failed with
\* TooManyEmptyResponsesError on the last of them and has made no request
\* after it; no call ever receives L + 2 consecutive empty responses.
C1_FailsAtLimitPlusOne ==
    \A r \in GovernedCalls :
        LET run == TrailingEmpty(kind[r], responses[r]) IN
        /\ run <= options[r].limit + 1
        /\ run = options[r].limit + 1 =>
              /\ pc[r] = "failed"
              /\ error[r] = TooManyEmptyResponsesError
              /\ requests[r] = Len(responses[r])

\* a call with a limit of at least one failed after a productive response
\* and limit + 1 empty ones
C1_Witness ==
    \E r \in GovernedCalls :
        /\ error[r] = TooManyEmptyResponsesError
        /\ options[r].limit >= 1
        /\ Len(responses[r]) = options[r].limit + 2
        /\ Entities(kind[r], responses[r][1]) > 0

\* C2: with a limit L configured, a call fails with
\* TooManyEmptyResponsesError only if its responses hold a run of more than
\* L consecutive empty responses, however many empty responses it received.
C2_ShortRunsNeverFail ==
    \A r \in GovernedCalls :
        LongestEmptyRun(kind[r], responses[r]) <= options[r].limit
        => /\ error[r] # TooManyEmptyResponsesError
           /\ pc[r] # "failed"

\* a call finished without error after more empty responses than its limit
C2_Witness ==
    \E r \in GovernedCalls :
        /\ pc[r] = "done"
        /\ options[r].limit >= 1
        /\ TotalEmpty(kind[r], responses[r]) > options[r].limit
        /\ LongestEmptyRun(kind[r], responses[r]) <= options[r].limit

\* C3: of two calls made with the same options object, each has a counter of
\* its own: a call's counter is always the length of the run of empty
\* responses its own responses end with, and a step in which a call receives
\* no response neither changes that call's counter nor makes it fail.
C3_CountersAreSeparate ==
    /\ [](\A r \in GovernedCalls :
            emptyResponses[RequestIdentity(r)]
                = TrailingEmpty(kind[r], responses[r]))
    /\ [][\A r \in GovernedCalls :
            responses'[r] = responses[r]
            => /\ emptyResponses'[RequestIdentity(r)]
                    = emptyResponses[RequestIdentity(r)]
               /\ error'[r] = error[r]
               /\ pc[r] # "failed" => pc'[r] # "failed"]_vars

\* request1 failed on its empty responses while request2, which had a
\* productive response and then an empty one, goes on with a counter of 1
C3_Witness ==
    /\ GovernedCalls = Requests
    /\ error["request1"] = TooManyEmptyResponsesError
    /\ pc["request2"] \notin {"failed", "start"}
    /\ Len(responses["request2"]) = 2
    /\ Entities(kind["request2"], responses["request2"][1]) > 0
    /\ emptyResponses[RequestIdentity("request2")] = 1

PagesCalls == {r \in Requests : kind[r] = "queryFullPages"}

\* the index of the first response of the batch the n-th response belongs to
BatchStart(rs, n) ==
    LET ends == {m \in 1..(n - 1) : rs[m].batchcomplete # Undefined}
    IN  IF ends = {} THEN 1
        ELSE 1 + CHOOSE m \in ends : \A other \in ends : other <= m

\* the pages of the responses from..to, in order
RECURSIVE PagesOf(_, _, _)
PagesOf(rs, from, to) ==
    IF from > to THEN <<>>
    ELSE PagesOf(rs, from, to - 1) \o ResponsePages(rs[to])

\* the pages of the batch the n-th response belongs to, up to that response
BatchPartials(rs, n) == PagesOf(rs, BatchStart(rs, n), n)

\* the partial pages with that key among pages, merged in order; Undefined
\* if there is none
MergedPage(pages, key) ==
    LET partials == SelectSeq(pages, LAMBDA page : PageKey(page) = key)
    IN  IF partials = <<>> THEN Undefined
        ELSE Obj(DeepMerge(Head(partials).v, Tail(partials)))

\* C4: queryFullPages never merges across a batch boundary: every page
\* yielded is the merge of the partial pages of its key in the responses of
\* its own batch only, and a call fails with a merge conflict only if the
\* partial pages of the current batch conflict among themselves.
C4_NoMergeAcrossBatches ==
    \A r \in PagesCalls :
        /\ \A i \in 1..Len(yields[r]) :
              LET n == yields[r][i][1]
                  page == yields[r][i][2]
              IN  page = MergedPage(BatchPartials(responses[r], n), PageKey(page))
        /\ error[r] # NoError =>
              queryFullPagesReducer(<<>>,
                  BatchPartials(responses[r], Len(responses[r])),
                  "mergeValues").error # NoError

\* page 1 was yielded for two batches, with v true and then with v false
C4_Witness ==
    \E r \in PagesCalls : \E i, j \in 1..Len(yields[r]) :
        /\ yields[r][i][1] < yields[r][j][1]
        /\ GetProperty(yields[r][i][2].v, "v") = Bool(TRUE)
        /\ GetProperty(yields[r][j][2].v, "v") = Bool(FALSE)
        /\ PageKey(yields[r][i][2]) = PageKey(yields[r][j][2])

\* C5: queryFullPages yields a page only while the latest response reduced
\* is one carrying batchcomplete: no page of a batch is yielded, or waits to
\* be yielded, before the response completing the batch has been reduced.
C5_YieldsOnlyCompletedBatches ==
    \A r \in PagesCalls :
        /\ \A i \in 1..Len(yields[r]) :
              LET n == yields[r][i][1] IN
              /\ n \in 1..Len(responses[r])
              /\ responses[r][n].batchcomplete # Undefined
        /\ pending[r] # <<>> =>
              responses[r][Len(responses[r])].batchcomplete # Undefined

\* a page a first response without batchcomplete brought was yielded with
\* the second response, which completed the batch
C5_Witness ==
    \E r \in PagesCalls :
        /\ Len(yields[r]) >= 1
        /\ yields[r][1][1] = 2
        /\ ResponsePages(responses[r][1]) # <<>>
        /\ responses[r][1].batchcomplete = Undefined

\* the pages yielded while the n-th response was the latest
YieldedWith(r, n) ==
    LET with == SelectSeq(yields[r], LAMBDA y : y[1] = n)
    IN  [i \in 1..Len(with) |-> with[i][2]]

\* the n-th response completed a batch and every page of it has been yielded
BatchYielded(r, n) ==
    /\ responses[r][n].batchcomplete # Undefined
    /\ \/ n < Len(responses[r])
       \/ /\ pc[r] \in {"yielded", "awaiting", "done"}
          /\ pending[r] = <<>>
          /\ requests[r] >= n

\* C6: for each completed batch, queryFullPages yields exactly one page per
\* key occurring in the responses of the batch, and that page is the merge,
\* in response order, of all partial pages of that key in the batch.
C6_OnePagePerIdentityMerged ==
    \A r \in PagesCalls : \A n \in 1..Len(responses[r]) :
        BatchYielded(r, n) =>
            LET partials == BatchPartials(responses[r], n)
                keys == {PageKey(partials[i]) : i \in 1..Len(partials)}
                pages == YieldedWith(r, n)
            IN  /\ Len(pages) = Cardinality(keys)
                /\ \A key \in keys :
                      \E i \in 1..Len(pages) :
                          /\ PageKey(pages[i]) = key
                          /\ pages[i] = MergedPage(partials, key)

\* a batch of two responses brought page 1 twice and page 2 once: two pages
\* were yielded, page 1 with the attributes of both of its partial pages
C6_Witness ==
    \E r \in PagesCalls : \E n \in 2..Len(responses[r]) :
        /\ BatchYielded(r, n)
        /\ BatchStart(responses[r], n) < n
        /\ Len(YieldedWith(r, n)) = 2
        /\ \E i \in 1..2 :
              /\ HasOwnProperty(YieldedWith(r, n)[i].v, "v")
              /\ HasOwnProperty(YieldedWith(r, n)[i].v, "links")

(***************************************************************************)
(* Properties of getResponsePageByTitle, stated over its calls             *)
(* (SpecLocator)                                                           *)
(***************************************************************************)
LocatorCalls ==
    {r \in Requests : kind[r] = "getResponsePageByTitle" /\ pc[r] = "returned"}

\* no two redirect entries have the same `from`
DistinctFroms(redirects) ==
    \A i, j \in 1..Len(redirects) :
        redirects[i].from = redirects[j].from => i = j

\* the first entry whose `from` is t; there is one
FirstFrom(entries, t) ==
    entries[CHOOSE i \in 1..Len(entries) :
                /\ entries[i].from = t
                /\ \A h \in 1..(i - 1) : entries[h].from # t]

HasFrom(entries, t) == \E i \in 1..Len(entries) : entries[i].from = t

\* the titles met going from t along the redirects, n redirects at most
RECURSIVE Path(_, _, _)
Path(redirects, t, n) ==
    IF n = 0 \/ ~HasFrom(redirects, t) THEN <<t>>
    ELSE <<t>> \o Path(redirects, FirstFrom(redirects, t).to, n - 1)

\* going from t along redirects with distinct `from`s never ends: more
\* redirects can be followed than there are entries
LoopsFrom(redirects, t) ==
    Len(Path(redirects, t, Len(redirects) + 1)) = Len(redirects) + 2

\* where an acyclic chain starting at t ends
ChainEnd(redirects, t) ==
    LET path == Path(redirects, t, Len(redirects)) IN path[Len(path)]

\* the title resolution goes on with once normalization has been looked at
AfterNormalization(normalized, t) ==
    IF HasFrom(normalized, t) THEN FirstFrom(normalized, t).to ELSE t

\* the first page of the response with that title, null if there is none
PageWithTitle(response, t) ==
    LET pages == ResponsePages(response)
        with == SelectSeq(pages, LAMBDA page : GetProperty(page.v, "title") = Str(t))
    IN  IF with = <<>> THEN Null ELSE Head(with)

\* the orders the entries of a list can stand in
OrdersOf(entries) ==
    LET n == Len(entries)
        bijections == {f \in [1..n -> 1..n] : \A i, j \in 1..n : f[i] = f[j] => i = j}
    IN  {[i \in 1..n |-> entries[f[i]]] : f \in bijections}

\* C12 as stated: when the redirects of the response (no two of them from the
\* same title) lead from the input title, after normalization, into a cycle,
\* getResponsePageByTitle returns null, whatever pages the response holds.
C12_RedirectLoopReturnsNull ==
    \A r \in LocatorCalls :
        LET response == responses[r][1]
            start == AfterNormalization(response.normalized, args[r].title)
        IN  (/\ DistinctFroms(response.redirects)
             /\ LoopsFrom(response.redirects, start))
            => result[r] = Null

\* redirects A -> B -> A and a page titled A in the response: asked for A,
\* the call returns that page
C12_Witness ==
    \E r \in LocatorCalls :
        /\ args[r].title = "A"
        /\ responses[r][1].redirects
              = <<[from |-> "A", to |-> "B"], [from |-> "B", to |-> "A"]>>
        /\ result[r] = PageTitled("A")

\* C13: when the redirects of the response (no two of them from the same
\* title) form an acyclic chain from the input title T0 to Tn, the call
\* returns the page titled Tn (null if the response holds none), and so it
\* does for every order of the redirect entries.
C13_ChainResolvedInAnyOrder ==
    \A r \in LocatorCalls :
        LET response == responses[r][1]
            t0 == args[r].title
        IN  (/\ ~HasFrom(response.normalized, t0)
             /\ DistinctFroms(response.redirects)
             /\ ~LoopsFrom(response.redirects, t0))
            => /\ result[r] = PageWithTitle(response, ChainEnd(response.redirects, t0))
               /\ \A permuted \in OrdersOf(response.redirects) :
                     getResponsePageByTitle(
                         [response EXCEPT !.redirects = permuted], t0) = result[r]

\* A -> B -> C with the entries in flipped order: the page titled C is found
C13_Witness ==
    \E r \in LocatorCalls :
        /\ args[r].title = "A"
        /\ responses[r][1].normalized = <<>>
        /\ responses[r][1].redirects
              = <<[from |-> "B", to |-> "C"], [from |-> "A", to |-> "B"]>>
        /\ result[r] = PageTitled("C")

\* C14: when a normalization entry has the input title as its `from`, the
\* call returns what it returns for that entry's `to` under the redirects
\* and pages of the response alone: the `to` is not normalized again, even
\* when another normalization entry has it as its `from`.
C14_NormalizedOnce ==
    \A r \in LocatorCalls :
        LET response == responses[r][1] IN
        HasFrom(response.normalized, args[r].title)
        => result[r] = getResponsePageByTitle(
                           [response EXCEPT !.normalized = <<>>],
                           FirstFrom(response.normalized, args[r].title).to)

\* a -> A and A -> B are both normalization entries, pages A and B are both
\* in the response: asked for a, the call returns page A
C14_Witness ==
    \E r \in LocatorCalls :
        /\ args[r].title = "a"
        /\ HasFrom(responses[r][1].normalized, "A")
        /\ responses[r][1].redirects = <<>>
        /\ PageWithTitle(responses[r][1], "B") # Null
        /\ result[r] = PageTitled("A")

\* the calls of getResponsePageByTitle that have entered the function
ResolvingCalls ==
    {r \in Requests : /\ kind[r] = "getResponsePageByTitle"
                      /\ pc[r] \in {"redirectLoop", "pages", "returned"}}

\* C15: for every redirect list (cycles, self-redirects and entries with the
\* same `from` included) and every input title, the redirect loop is left
\* and the function returns; the loop is left at a title no redirect starts
\* from or at a title visited before, and what is returned is what following
\* the redirects to that title gives.
C15_RedirectLoopTerminates ==
    /\ <>(\A r \in Requests :
            kind[r] = "getResponsePageByTitle" => pc[r] = "returned")
    /\ [](\A r \in ResolvingCalls :
            /\ pc[r] # "redirectLoop" =>
                  \/ ~HasFrom(responses[r][1].redirects, frame[r].title)
                  \/ frame[r].title \in frame[r].visitedRedirects
            /\ pc[r] = "returned" =>
                  result[r] = getResponsePageByTitle(responses[r][1],
                                                     args[r].title))

\* a list with a self-redirect and two entries from the same title: the loop
\* was left at a title visited before, after two redirects
C15_Witness ==
    \E r \in ResolvingCalls :
        LET redirects == responses[r][1].redirects IN
        /\ pc[r] = "returned"
        /\ \E i \in 1..Len(redirects) : redirects[i].from = redirects[i].to
        /\ ~DistinctFroms(redirects)
        /\ Cardinality(frame[r].visitedRedirects) = 2
        /\ frame[r].title \in frame[r].visitedRedirects

(***************************************************************************)
(* Properties of the page ID comparison (SpecPartialPage)                  *)
(***************************************************************************)
PartialPageCalls ==
    {r \in Requests : kind[r] = "queryPartialPageByPageId" /\ pc[r] = "returned"}

\* the page ID parameter of the request the call sent holds one ID only
OneIdSent(r) == Len(frame[r].params.ids.v) = 1

\* the numeral JavaScript prints for the number a numeral of the model
\* denotes: ...6780, ...6788 and ...6789 are the double ...6784, printed as
\* ...6780; ...6800 is a double
PrintedLow(lo) == IF lo < 6792 THEN 6780 ELSE 6800

\* two numerals are the same ID to the program
SameIdentity(a, b) ==
    CASE a.form = "text" /\ b.form = "text" -> a.lo = b.lo
      [] a.form = "number" /\ b.form = "number" ->
            PrintedLow(a.lo) = PrintedLow(b.lo)
      [] a.form = "text" /\ b.form = "number" -> a.lo = PrintedLow(b.lo)
      [] a.form = "number" /\ b.form = "text" -> PrintedLow(a.lo) = b.lo

\* C16 as stated: page IDs are the same identity exactly if their decimal
\* numerals are equal, whether written as text or as a number: the page of
\* the response is found iff its ID has the numeral of the ID given, and the
\* ID given is added to an ID already in params iff their numerals differ.
C16_DecimalExact ==
    \A r \in PartialPageCalls :
        LET written == args[r].written IN
        /\ result[r] # Null <=> written.given.lo = written.served.lo
        /\ args[r].params.ids # Undefined =>
              (OneIdSent(r) <=> written.given.lo = written.existing.lo)

\* C16, amended: page IDs written as text are the same identity exactly if
\* their decimal numerals are equal; a page ID written as a number is the
\* identity of the numeral JavaScript prints for the double it denotes
\* (123456789123456780 for 123456789123456789 and for 123456789123456788),
\* both when a page is looked up in a response and when the ID is added to
\* the IDs in params.
C16_DecimalExactForText ==
    \A r \in PartialPageCalls :
        LET written == args[r].written IN
        /\ result[r] # Null <=> SameIdentity(written.given, written.served)
        /\ args[r].params.ids # Undefined =>
              (OneIdSent(r) <=> SameIdentity(written.given, written.existing))

\* given "123456789123456789" as text, the page whose ID is the number
\* 123456789123456789 is not found, and the ID is added to the same number
\* in params; the page is found when given "123456789123456780"
C16_Witness ==
    \E r \in PartialPageCalls :
        LET written == args[r].written IN
        /\ written.given = [form |-> "text", lo |-> 6789]
        /\ written.served = [form |-> "number", lo |-> 6789]
        /\ written.existing = [form |-> "number", lo |-> 6789]
        /\ args[r].params.ids.k = "array"
        /\ result[r] = Null
        /\ ~OneIdSent(r)

(***************************************************************************)
(* Properties of the calls given a title, a page ID or a revision ID       *)
(* (SpecByIdentifier)                                                      *)
(***************************************************************************)
\* the response holds the revision asked for: among the revisions of one of
\* its pages, or among its badrevids
ContainsRevision(response) ==
    \/ /\ response.badrevids # Undefined
       /\ \E i \in 1..Len(response.badrevids.v) :
              response.badrevids.v[i][1] = pageId
    \/ \E i \in 1..Len(ResponsePages(response)) :
          LET revisions == GetProperty(ResponsePages(response)[i].v, "revisions")
          IN  /\ revisions # Undefined
              /\ \E j \in 1..Len(revisions.v) :
                     GetProperty(revisions.v[j].v, "revid") = Num(1)

\* C17: queryPotentialRevisionByRevisionId yields exactly one value per
\* response pulled: null for a response that does not hold the revision, the
\* revision for the first response that holds it; a value that is not null
\* is the last one yielded, and after it no further request goes out and the
\* iteration ends, whether or not the response carried continue.
C17_NullsThenRevision ==
    \A r \in Requests :
        kind[r] = "queryPotentialRevisionByRevisionId" =>
            /\ Len(yields[r]) = Len(responses[r])
            /\ \A i \in 1..Len(yields[r]) :
                  LET yielded == yields[r][i][2] IN
                  /\ yields[r][i][1] = i
                  /\ yielded = Null <=> ~ContainsRevision(responses[r][i])
                  /\ yielded # Null =>
                        /\ GetProperty(yielded.v, "revid") = Num(1)
                        /\ i = Len(yields[r])
                        /\ requests[r] = i
                        /\ pc[r] \in {"yielded", "done"}

\* null for a first response, the revision for a second one that carries
\* continue, and the generator is done after two requests
C17_Witness ==
    \E r \in Requests :
        /\ kind[r] = "queryPotentialRevisionByRevisionId"
        /\ pc[r] = "done"
        /\ Len(yields[r]) = 2
        /\ yields[r][1][2] = Null
        /\ yields[r][2][2] # Null
        /\ responses[r][2].continue
        /\ requests[r] = 2

\* C18: queryFullRevisionByRevisionId returns the revision of the first
\* response that holds it, and no request goes out after that response,
\* whether or not it carried continue.
C18_ReturnsFirstFound ==
    \A r \in Requests :
        kind[r] = "queryFullRevisionByRevisionId" =>
            /\ \A i \in 1..Len(responses[r]) :
                  ContainsRevision(responses[r][i]) =>
                      /\ i = Len(responses[r])
                      /\ pc[r] = "returned"
                      /\ requests[r] = i
                      /\ result[r] # Undefined
                      /\ GetProperty(result[r].v, "revid") = Num(1)
            /\ pc[r] = "returned" =>
                  ContainsRevision(responses[r][Len(responses[r])])

\* the revision is in the second response, which carries continue
C18_Witness ==
    \E r \in Requests :
        /\ kind[r] = "queryFullRevisionByRevisionId"
        /\ pc[r] = "returned"
        /\ Len(responses[r]) = 2
        /\ responses[r][2].continue
        /\ ~ContainsRevision(responses[r][1])
        /\ result[r].pageOfRevision # Undefined
        /\ requests[r] = 2

\* the responses of call r ended: the last one carries no continue
StreamEnded(r) ==
    /\ responses[r] # <<>>
    /\ ~responses[r][Len(responses[r])].continue

\* what completes call r was seen: a response with batchcomplete, or a
\* response holding the revision
Completed(r) ==
    IF kind[r] = "queryFullRevisionByRevisionId"
    THEN \E i \in 1..Len(responses[r]) : ContainsRevision(responses[r][i])
    ELSE \E i \in 1..Len(responses[r]) :
            responses[r][i].batchcomplete # Undefined

\* C19: when the responses end before the aggregation completes, the call
\* fails with an error and returns nothing: queryFullPageByTitle and
\* queryFullPageByPageId when no response carried batchcomplete (the error
\* says so if every response held the page), queryFullRevisionByRevisionId
\* when no response held the revision; and a call that returns has completed.
C19_EndWithoutCompletionFails ==
    \A r \in Requests :
        kind[r] \in {"queryFullPageByTitle", "queryFullPageByPageId",
                     "queryFullRevisionByRevisionId"} =>
            /\ StreamEnded(r) /\ ~Completed(r) =>
                  /\ pc[r] = "failed"
                  /\ result[r] = Undefined
                  /\ error[r] # NoError
                  /\ kind[r] = "queryFullRevisionByRevisionId" =>
                        error[r] = NoRevision
                  /\ /\ kind[r] # "queryFullRevisionByRevisionId"
                     /\ \A i \in 1..Len(responses[r]) :
                            responses[r][i].pages # Undefined
                     => error[r] = NoBatch
            /\ pc[r] = "returned" => Completed(r)

\* two responses that held the page, or did not hold the revision, and the
\* second one ends the continuation
C19_Witness ==
    \E r \in Requests :
        /\ kind[r] \in {"queryFullPageByTitle", "queryFullPageByPageId",
                        "queryFullRevisionByRevisionId"}
        /\ Len(responses[r]) = 2
        /\ StreamEnded(r)
        /\ ~Completed(r)
        /\ pc[r] = "failed"
        /\ error[r] \in {NoBatch, NoRevision}

\* params the functions refuse
Refused(params) ==
    \/ params.generator # Undefined
    \/ params.action \notin {Undefined, Str("query")}

\* C20: a call given a title, a page ID or a revision ID whose params hold a
\* generator, or an action that is neither undefined nor 'query', sends no
\* request and fails with a RangeError once it runs.
C20_RefusedBeforeAnyRequest ==
    \A r \in Requests :
        kind[r] \in ByIdentifier /\ Refused(args[r].params) =>
            /\ requests[r] = 0
            /\ responses[r] = <<>>
            /\ pc[r] \in {"start", "failed"}
            /\ pc[r] = "failed" => error[r].type = "RangeError"

\* a call with action 'parse' and no generator has failed
C20_Witness ==
    \E r \in Requests :
        /\ kind[r] \in ByIdentifier
        /\ args[r].params.action = Str("parse")
        /\ args[r].params.generator = Undefined
        /\ pc[r] = "failed"
        /\ error[r].type = "RangeError"
        /\ requests[r] = 0

(***************************************************************************)
(* Properties of the params check of queryFullPages and queryFullRevisions *)
(* (SpecParams)                                                            *)
(***************************************************************************)
\* none of titles, pageids, revids and generator is in the params
NamesNoPages(params) ==
    \A name \in {"titles", "pageids", "revids", "generator"} :
        params[name] = Undefined

C22_EventuallyYieldsOrFails ==
    \A r \in Requests :
        (r \in GovernedCalls /\ pc[r] = "awaiting")
        ~> (pc[r] \in {"yielded", "failed", "done"})

\* the latest response to call r held a page (queryFullPages) or a revision
\* (queryFullRevisions)
LatestProductive(r) ==
    /\ responses[r] # <<>>
    /\ Entities(kind[r], responses[r][Len(responses[r])]) > 0

\* C22, amended: with a limit configured, a call whose consumer keeps pulling
\* cannot pull empty responses forever: while it awaits a response, it
\* eventually receives a response that holds an entity, fails (with
\* TooManyEmptyResponsesError if no merge failed), or sees its responses
\* end.  queryFullRevisions yields the entities of such a response;
\* queryFullPages keeps them until a response carries batchcomplete, and
\* yields nothing as long as none does.
C22_EmptyResponsesEnd ==
    \A r \in Requests :
        (r \in GovernedCalls /\ pc[r] = "awaiting")
        ~> \/ LatestProductive(r)
           \/ pc[r] = "failed"
           \/ pc[r] = "done"

\* a call with limit 2 failed on its third empty response in a row, received
\* after the record of the call had started over
C22_Witness ==
    \E r \in GovernedCalls :
        /\ options[r].limit = 2
        /\ pc[r] = "failed"
        /\ error[r] = TooManyEmptyResponsesError
        /\ Len(responses[r]) = 1
        /\ emptyResponses[r] = 3

(***************************************************************************)
(* Properties of the revisions returned (SpecRevisions)                    *)
(***************************************************************************)
\* the revisions call r has returned so far, each with the index of the
\* response it was taken from
ReturnedRevisions(r) ==
    {<<yields[r][i][1], yields[r][i][2]>> :
        i \in {j \in 1..Len(yields[r]) : yields[r][j][2] # Null}}
    \cup (IF kind[r] = "queryFullRevisionByRevisionId" /\ pc[r] = "returned"
          THEN {<<Len(responses[r]), result[r]>>} ELSE {})

\* the revision is one of the revisions of a page of the response, and the
\* page attached to it is that page but for its revisions
LocatedInPage(response, revision) ==
    \E i \in 1..Len(ResponsePages(response)) :
        LET page == ResponsePages(response)[i] IN
        /\ HasOwnProperty(page.v, "revisions")
        /\ \E j \in 1..Len(GetProperty(page.v, "revisions").v) :
              GetProperty(page.v, "revisions").v[j].v = revision.v
        /\ \A key \in {"pageid", "title"} :
              GetProperty(revision.pageOfRevision.v, key) = GetProperty(page.v, key)

\* the revision is reported in the badrevids of the response
ReportedBad(response, revision) ==
    /\ response.badrevids # Undefined
    /\ \E i \in 1..Len(response.badrevids.v) :
          GetProperty(response.badrevids.v[i][2].v, "revid")
              = GetProperty(revision.v, "revid")

\* the number of revisions the pages hold
RECURSIVE CountRevisions(_)
CountRevisions(pages) ==
    IF pages = <<>> THEN 0
    ELSE (IF HasOwnProperty(Head(pages).v, "revisions")
          THEN Len(GetProperty(Head(pages).v, "revisions").v) ELSE 0)
         + CountRevisions(Tail(pages))

\* the number of revisions call r yielded out of its n-th response with a
\* page attached
YieldedWithPage(r, n) ==
    Cardinality({i \in 1..Len(yields[r]) :
                    /\ yields[r][i][1] = n
                    /\ yields[r][i][2] # Null
                    /\ yields[r][i][2].pageOfRevision # Undefined})

\* C23: a revision returned by queryPotentialRevisionByRevisionId,
\* queryFullRevisionByRevisionId (both return what
\* getResponseRevisionByRevisionId finds) or queryFullRevisions has a page
\* attached under pageOfRevision iff it was found in a page of the response
\* and not in its badrevids; the page attached has no revisions; and the
\* attributes of the revision are the ones the response gave it, the page
\* not among them.
C23_PageOfRevisionIffLocated ==
    \A r \in Requests : \A returned \in ReturnedRevisions(r) :
        LET response == responses[r][returned[1]]
            revision == returned[2]
        IN  /\ \A i \in 1..Len(revision.v) :
                  /\ revision.v[i][1] # "pageOfRevision"
                  /\ revision.v[i][2] # revision.pageOfRevision
            /\ IF revision.pageOfRevision # Undefined
               THEN /\ LocatedInPage(response, revision)
                    /\ ~HasOwnProperty(revision.pageOfRevision.v, "revisions")
               ELSE ReportedBad(response, revision)
            /\ kind[r] # "queryFullRevisions" =>
                  (revision.pageOfRevision = Undefined
                   <=> ReportedBad(response, revision))
            /\ kind[r] = "queryFullRevisions"
               /\ (returned[1] < Len(responses[r]) \/ pending[r] = <<>>) =>
                  YieldedWithPage(r, returned[1])
                      = CountRevisions(ResponsePages(response))

\* queryFullRevisions yielded, out of one response, the revision of its
\* badrevids without a page and the two revisions of its page with the page
C23_Witness ==
    \E r \in Requests :
        /\ kind[r] = "queryFullRevisions"
        /\ Len(responses[r]) = 1
        /\ Len(yields[r]) = 3
        /\ yields[r][1][2].pageOfRevision = Undefined
        /\ yields[r][3][2].pageOfRevision = Obj(<<<<"pageid", Num(1)>>>>)

\* the revision of its badrevids the response reports
BadOf(response) == response.badrevids.v[1][2]

\* C24: a revision returned out of the badrevids of a response has the
\* attribute missing: the one the response gave it if any, else true if the
\* response is of format version 2 (batchcomplete is a boolean, or pages is
\* a list), else the empty string; its other attributes are the ones of the
\* response.
C24_MissingAlwaysPresent ==
    \A r \in Requests : \A returned \in ReturnedRevisions(r) :
        LET response == responses[r][returned[1]]
            revision == returned[2]
        IN  revision.pageOfRevision = Undefined =>
                IF HasOwnProperty(BadOf(response).v, "missing")
                THEN revision.v = BadOf(response).v
                ELSE revision.v =
                        Append(BadOf(response).v,
                               <<"missing",
                                 IF \/ response.batchcomplete \in {Bool(TRUE), Bool(FALSE)}
                                    \/ response.pages.k = "array"
                                 THEN Bool(TRUE) ELSE Str("")>>)

\* a response of format version 1 without missing in its badrevids: the
\* revision returned has missing: ''
C24_Witness ==
    \E r \in Requests : \E returned \in ReturnedRevisions(r) :
        /\ responses[r][returned[1]].batchcomplete = Str("")
        /\ ~HasOwnProperty(BadOf(responses[r][returned[1]]).v, "missing")
        /\ GetProperty(returned[2].v, "missing") = Str("")

(***************************************************************************)
(* Properties of the order of the pages queryFullPages yields (Spec)       *)
(***************************************************************************)
\* C25: with comparePages set (to the comparison by page ID), the pages
\* queryFullPages yields out of one batch come in the order of the
\* comparison function, and the pages of an earlier batch come before the
\* pages of a later batch, whatever their page IDs.
C25_SortedWithinBatches ==
    \A r \in PagesCalls :
        options[r].comparePages # "null" =>
            \A i, j \in 1..Len(yields[r]) :
                i < j =>
                    /\ yields[r][i][1] <= yields[r][j][1]
                    /\ yields[r][i][1] = yields[r][j][1] =>
                          compareFn(options[r].comparePages,
                                    yields[r][i][2], yields[r][j][2]) <= 0

\* a batch whose response lists page 2 before page 1 was yielded as page 1,
\* page 2, and page 1 of the next batch came after them
C25_Witness ==
    \E r \in PagesCalls :
        /\ options[r].comparePages = "pageid"
        /\ Len(yields[r]) = 3
        /\ GetProperty(ResponsePages(responses[r][yields[r][1][1]])[1].v, "pageid")
              = Num(2)
        /\ GetProperty(yields[r][1][2].v, "pageid") = Num(1)
        /\ GetProperty(yields[r][2][2].v, "pageid") = Num(2)
        /\ GetProperty(yields[r][3][2].v, "pageid") = Num(1)
        /\ yields[r][2][1] < yields[r][3][1]

(***************************************************************************)
(* Properties of the order of the revisions queryFullRevisions yields      *)
(* (SpecRevisions)                                                         *)
(***************************************************************************)
\* C26: with compareRevisions set (to the comparison by revision ID), the
\* revisions queryFullRevisions yields out of one batch, the responses up to
\* and including one with batchcomplete, come in the order of the comparison
\* function, also when the batch is more than one response.
C26_SortedWithinBatches ==
    \A r \in Requests :
        kind[r] = "queryFullRevisions" /\ options[r].compareRevisions # "null" =>
            \A i, j \in 1..Len(yields[r]) :
                /\ i < j
                /\ BatchStart(responses[r], yields[r][i][1])
                      = BatchStart(responses[r], yields[r][j][1])
                => compareFn(options[r].compareRevisions,
                             yields[r][i][2], yields[r][j][2]) <= 0

\* a first response without batchcomplete holds revisions 3 and 1, the
\* second response revision 2: the revisions come as 1, 3, 2
C26_Witness ==
    \E r \in Requests :
        /\ kind[r] = "queryFullRevisions"
        /\ options[r].compareRevisions = "revid"
        /\ Len(responses[r]) = 2
        /\ responses[r][1].batchcomplete = Undefined
        /\ responses[r][1].badrevids = Undefined
        /\ Len(yields[r]) = 3
        /\ [i \in 1..3 |-> GetProperty(yields[r][i][2].v, "revid")]
              = <<Num(1), Num(3), Num(2)>>

(***************************************************************************)
(* Properties of getResponsePageByTitle on converted titles (SpecConverted) *)
(***************************************************************************)
\* C27: getResponsePageByTitle takes the converted titles of the response
\* into account: the title, once normalized, is replaced by the `to` of the
\* first entry of query.converted whose `from` it is, the redirects are
\* followed from there, and the page with the title reached is returned
\* (null if the response holds none).
C27_ConvertedTitleFollowed ==
    \A r \in LocatorCalls :
        LET response == responses[r][1]
            normalized == AfterNormalization(response.normalized, args[r].title)
            converted == AfterNormalization(response.converted, normalized)
        IN  result[r] = PageWithTitle(response,
                                      ChainEnd(response.redirects, converted))

\* asked for A, which the response converts to B, with pages A, B and C in
\* the response and no redirect, the call returns page A
C27_Witness ==
    \E r \in LocatorCalls :
        /\ args[r].title = "A"
        /\ responses[r][1].converted = <<[from |-> "A", to |-> "B"]>>
        /\ responses[r][1].redirects = <<>>
        /\ Len(ResponsePages(responses[r][1])) = 3
        /\ result[r] = PageTitled("A")

(***************************************************************************)
(* Properties of the generators and their consumer (SpecPull)              *)
(***************************************************************************)
\* C28: the generators are driven by the consumer's pulls.  A request goes
\* out only in a step that leaves the consumer waiting for the item it asked
\* for, and one request at a time; while the consumer holds an item and has
\* not asked for the next one, every request has been answered; once the
\* consumer has stopped iterating, every request has been answered and no
\* further request goes out.
C28_PullDriven ==
    /\ [](\A r \in Requests :
            kind[r] \in Generators =>
                /\ pc[r] \in {"start", "yielded", "stopped", "done", "failed"}
                      => requests[r] = Len(responses[r])
                /\ pc[r] = "awaiting" => requests[r] = Len(responses[r]) + 1)
    /\ [][\A r \in Requests :
            /\ requests'[r] # requests[r] =>
                  /\ requests'[r] = requests[r] + 1
                  /\ pc[r] \in {"start", "yielded", "awaiting"}
                  /\ pc'[r] = "awaiting"
            /\ pc[r] = "stopped" =>
                  /\ pc'[r] = "stopped"
                  /\ requests'[r] = requests[r]]_vars

\* the consumer of queryFullRevisions stopped after the first item, while
\* the response held more revisions and carried continue
C28_Witness ==
    \E r \in Requests :
        /\ kind[r] = "queryFullRevisions"
        /\ pc[r] = "stopped"
        /\ Len(yields[r]) = 1
        /\ responses[r][1].continue
        /\ requests[r] = 1

(***************************************************************************)
(* The callback of the caller (SpecCallback)                               *)
(***************************************************************************)
\* where customMergeValues leaves its note when called for the member at
\* path: beside the member, in the same container
NoteOf(path) ==
    SubSeq(path, 1, Len(path) - 1) \o <<"-test-" \o path[Len(path)]>>

\* both sides hold a member at path, the two values are neither both
\* objects nor both arrays, and they differ
Conflict(base, incremental, path) ==
    LET baseValue == ValueAt(base, path)
        incrementalValue == ValueAt(incremental, path)
    IN  /\ baseValue # Undefined
        /\ incrementalValue # Undefined
        /\ ~(isObject(baseValue) /\ isObject(incrementalValue))
        /\ ~(isArray(baseValue) /\ isArray(incrementalValue))
        /\ baseValue # incrementalValue

MemberPaths == CallbackPaths \cup {<<"title">>, <<"pageid">>}

\* C29: when a partial page is merged into the accumulated page with the
\* caller's callback as the conflict resolver, the callback is called for
\* exactly the members that both sides hold with values that are neither
\* both objects nor both arrays and that are not identical: it is given the
\* accumulated value, the incremental value, the dotted path, the container
\* of the accumulated side and the key (all of which its note shows), what it
\* returns is the value of the member afterwards, and what it did to the
\* container is in the accumulated page and in the page returned; where it is
\* not called for a member or for a container of it, no note is made.
C29_CallbackOnConflicts ==
    [][\A r \in Requests :
          (/\ kind[r] \in {"queryFullPageByTitle", "queryFullPageByPageId"}
           /\ options[r].mergeValues = "customMergeValues"
           /\ Len(responses'[r]) = Len(responses[r]) + 1
           /\ TargetPage(kind[r], responses'[r][Len(responses'[r])]) # Null)
          =>
          LET base == Obj(accumulator[r])
              incremental == TargetPage(kind[r], responses'[r][Len(responses'[r])])
              merged == Obj(accumulator'[r])
          IN  \A path \in MemberPaths :
                /\ Conflict(base, incremental, path) =>
                      /\ ValueAt(merged, path) = Resolved
                      /\ ValueAt(merged, NoteOf(path)) =
                            Arr(<<ValueAt(base, path), ValueAt(incremental, path),
                                  Str(Dotted(path))>>)
                      /\ pc'[r] = "returned" => result'[r] = merged
                /\ (\A n \in 1..Len(path) :
                        ~Conflict(base, incremental, SubSeq(path, 1, n))) =>
                      ValueAt(merged, NoteOf(path)) = ValueAt(base, NoteOf(path))
      ]_vars

\* the call of the test: { a: { b: 1 } } and then { a: { b: 2 } }, the page
\* returned holds what the callback returned as a.b and its note beside it
C29_Witness ==
    \E r \in Requests :
        /\ pc[r] = "returned"
        /\ options[r].mergeValues = "customMergeValues"
        /\ Len(responses[r]) = 2
        /\ ValueAt(result[r], <<"a", "b">>) = Resolved
        /\ ValueAt(result[r], <<"a", "-test-b">>) =
              Arr(<<Num(1), Num(2), Str("a.b")>>)
        /\ ValueAt(result[r], <<"-test-a">>) = Undefined

(***************************************************************************)
(* The counter of maxEmptyResponses (SpecGoverned)                         *)
(***************************************************************************)
\* C30: while a queryFullPages or queryFullRevisions call with a limit L has
\* not failed, its counter is the number of empty responses it has received
\* since its last productive response (since its start, if there was none),
\* the counter is at least 0 and at most L, and it is 0 whenever the latest
\* response was a productive one.
C30_CounterWithinLimit ==
    \A r \in GovernedCalls :
        pc[r] # "failed" =>
            LET counter == emptyResponses[RequestIdentity(r)]
                received == Len(responses[r])
            IN  /\ counter >= 0
                /\ counter <= options[r].limit
                /\ \E since \in 0..received :
                      /\ since = 0 \/ Entities(kind[r], responses[r][since]) > 0
                      /\ \A n \in (since + 1)..received :
                            Entities(kind[r], responses[r][n]) = 0
                      /\ counter = received - since
                /\ (received > 0 /\ Entities(kind[r], responses[r][received]) > 0)
                      => counter = 0

\* a call with a limit of one that has not failed after more empty
\* responses than its limit, an empty response before a productive one and
\* an empty one after it: the counter is at the limit
C30_Witness ==
    \E r \in GovernedCalls :
        /\ pc[r] # "failed"
        /\ options[r].limit = 1
        /\ Len(responses[r]) = 3
        /\ Entities(kind[r], responses[r][1]) = 0
        /\ Entities(kind[r], responses[r][2]) > 0
        /\ Entities(kind[r], responses[r][3]) = 0
        /\ emptyResponses[RequestIdentity(r)] = 1

(***************************************************************************)
(* The end of a call (SpecTerminal)                                        *)
(***************************************************************************)
\* the call has failed with TooManyEmptyResponsesError, or it is a call for
\* a single page and its latest response carried batchcomplete
Terminal(r) ==
    \/ error[r] = TooManyEmptyResponsesError
    \/ /\ kind[r] \in SinglePage
       /\ responses[r] # <<>>
       /\ BatchComplete(responses[r][Len(responses[r])])

\* C31: once a call has failed with TooManyEmptyResponsesError, or a call
\* for a single page has received a response with batchcomplete, every
\* request of the call has been answered, and from then on the call makes no
\* request, receives no response and yields nothing, whether or not the
\* latest response carried continue.
C31_TerminalStates ==
    /\ [](\A r \in Requests :
            Terminal(r) =>
                /\ requests[r] = Len(responses[r])
                /\ pc[r] \in {"yielded", "done", "returned", "failed"})
    /\ [][\A r \in Requests :
            Terminal(r) =>
                /\ requests'[r] = requests[r]
                /\ responses'[r] = responses[r]
                /\ yields'[r] = yields[r]
                /\ pc'[r] \in {"done", "returned", "failed"}
                /\ Terminal(r)']_vars

\* a queryFullRevisions call failed with TooManyEmptyResponsesError on a
\* response that carried continue, after a productive response
C31_Witness ==
    \E r \in Requests :
        /\ kind[r] = "queryFullRevisions"
        /\ error[r] = TooManyEmptyResponsesError
        /\ Len(responses[r]) >= 2
        /\ Entities(kind[r], responses[r][1]) > 0
        /\ responses[r][Len(responses[r])].continue
        /\ requests[r] = Len(responses[r])

(***************************************************************************)
(* A response without the page (SpecFullPage)                              *)
(***************************************************************************)
\* C32: when a queryFullPageByTitle or queryFullPageByPageId call receives a
\* response that does not hold the page with the title or page ID asked
\* for, the accumulated page stays as it is, no error is thrown, and the
\* call goes on with the next response if the response carried continue.
C32_NoMatchIsUnproductive ==
    [][\A r \in FullPageCalls :
          (/\ Len(responses'[r]) = Len(responses[r]) + 1
           /\ TargetPage(kind[r], responses'[r][Len(responses'[r])]) = Null)
          =>
          /\ accumulator'[r] = accumulator[r]
          /\ error'[r] = NoError
          /\ pc'[r] # "failed"
          /\ responses'[r][Len(responses'[r])].continue
                => requests'[r] = requests[r] + 1
      ]_vars

\* after a response with the page, a response with another page only, which
\* carried continue: the call has failed on Object.entries( null ) and made
\* no further request
C32_Witness ==
    \E r \in FullPageCalls :
        /\ Len(responses[r]) = 2
        /\ TargetPage(kind[r], responses[r][1]) # Null
        /\ TargetPage(kind[r], responses[r][2]) = Null
        /\ responses[r][2].continue
        /\ pc[r] = "failed"
        /\ error[r] = EntriesOfNull
        /\ requests[r] = 2

(***************************************************************************)
(* The pages of the responses after the merge (SpecSharing)                *)
(***************************************************************************)
\* the pages call r has merged so far, as they are in the heap now
PagesNow(r) ==
    [i \in 1..Len(pending[r]) |-> Deref(accumulator[r].heap, pending[r][i])]

\* C33: the page of a response is not changed by being merged into the
\* accumulated page, nor by any later merge into the same accumulated page:
\* at all times the page of every response received holds what the response
\* held when it arrived.
C33_IncrementalStaysAsReceived ==
    \A r \in FullPageCalls :
        pc[r] \notin {"unused", "start"} =>
            \A i \in 1..Len(pending[r]) :
                PagesNow(r)[i] = TargetPage(kind[r], responses[r][i])

\* the call received { a: { b: 1 } } and then { a: { c: 2 } } and returned
\* { a: { b: 1, c: 2 } }; the page of the first response now holds c too
C33_Witness ==
    \E r \in FullPageCalls :
        /\ pc[r] = "returned"
        /\ Len(pending[r]) = 2
        /\ ValueAt(TargetPage(kind[r], responses[r][1]), <<"a", "b">>) = Num(1)
        /\ ValueAt(TargetPage(kind[r], responses[r][1]), <<"a", "c">>) = Undefined
        /\ ValueAt(PagesNow(r)[1], <<"a", "c">>) = Num(2)
        /\ ValueAt(result[r], <<"a", "c">>) = Num(2)
        /\ PagesNow(r)[2] = TargetPage(kind[r], responses[r][2])

\* the accumulated page by reference is the accumulated page by value
SharingAgreesWithValues ==
    \A r \in FullPageCalls :
        (pc[r] \notin {"unused", "start", "failed"}) =>
            Deref(accumulator[r].heap, accumulator[r].page) =
                Obj(DeepMerge(initialPage, Partials(r, responses[r])))

(***************************************************************************)
(* Values the default mergeValues refuses (SpecFullPage)                   *)
(***************************************************************************)
\* an array and an object, null and a value that is not null, or a string
\* and a number, in either order
Unmergeable(b, i) ==
    \/ b.k = "array" /\ i.k = "object"
    \/ b.k = "object" /\ i.k = "array"
    \/ b.k = "null" /\ i.k \notin {"null", "undefined"}
    \/ i.k = "null" /\ b.k \notin {"null", "undefined"}
    \/ b.k = "string" /\ i.k = "number"
    \/ b.k = "number" /\ i.k = "string"

\* C34: with the default mergeValues, when the accumulated page and the page
\* of the next response hold at the same path an array and an object, null
\* and a value that is not null, or a string and a number (in either order),
\* the call fails on that response with an Error that names the dotted path
\* and the two kinds of value, and the accumulated page stays as it was:
\* the two values are neither merged nor is one put in place of the other.
C34_UnmergeableValuesRaise ==
    [][\A r \in FullPageCalls : \A path \in AttributePaths :
        LET n == Len(responses'[r])
            b == ValueAt(Obj(accumulator[r]), path)
            i == ValueAt(TargetPage(kind[r], responses'[r][n]), path)
        IN  (/\ options[r].mergeValues = "mergeValues"
             /\ n = Len(responses[r]) + 1
             /\ Unmergeable(b, i))
            => /\ pc'[r] = "failed"
               /\ error'[r].type = "Error"
               /\ error'[r].path = Dotted(path)
               /\ b.k = "array" =>
                     \E rest \in {"object", "null"} :
                         error'[r].message = "Cannot merge array with " \o rest
               /\ i.k = "array" =>
                     \E rest \in {"object", "null"} :
                         error'[r].message = "Cannot merge " \o rest \o " with array"
               /\ accumulator'[r] = accumulator[r]
               /\ result'[r] = result[r]]_vars

\* an object and then an array at x, and a string and then a number four
\* objects deep: the calls failed naming x and a.b.c.d
C34_Witness ==
    \E r \in FullPageCalls :
        /\ pc[r] = "failed"
        /\ Len(responses[r]) = 3
        /\ ValueAt(TargetPage(kind[r], responses[r][1]), <<"a", "b", "c", "d">>) = Str("1")
        /\ ValueAt(TargetPage(kind[r], responses[r][2]), <<"x">>) = Obj(<<>>)
        /\ ValueAt(TargetPage(kind[r], responses[r][3]), <<"x">>) = Arr(<<Num(1)>>)
        /\ error[r].path = "x"
        /\ error[r].message = "Cannot merge object with array"
        /\ ValueAt(Obj(accumulator[r]), <<"x">>) = Obj(<<>>)

(***************************************************************************)
(* Which partial pages queryFullPages merges (SpecMissing)                 *)
(***************************************************************************)
\* the page has a page ID other than 0
HasPageId(page) ==
    LET pageid == GetProperty(page.v, "pageid")
    IN  pageid.k = "number" /\ pageid.v # 0

\* both pages have the same page ID other than 0, or neither has a page ID
\* other than 0 and both have the same title
SameEntity(p, q) ==
    \/ /\ HasPageId(p) /\ HasPageId(q)
       /\ GetProperty(p.v, "pageid") = GetProperty(q.v, "pageid")
    \/ /\ ~HasPageId(p) /\ ~HasPageId(q)
       /\ GetProperty(p.v, "title") = GetProperty(q.v, "title")

\* C35: of every completed batch, queryFullPages yields pages no two of
\* which have the same page ID other than 0, or no such page ID and the same
\* title; every partial page of the batch went into exactly one of them; and
\* each page yielded is the merge, in response order, of exactly the partial
\* pages of the batch that have its page ID other than 0 or, having none,
\* its title.  Missing pages that share the page ID 0 and differ in title
\* are yielded apart, each with its own attributes only.
C35_MergedIffSameEntity ==
    \A r \in PagesCalls : \A n \in 1..Len(responses[r]) :
        BatchYielded(r, n) =>
            LET partials == BatchPartials(responses[r], n)
                pages == YieldedWith(r, n)
            IN  /\ \A i, j \in 1..Len(pages) :
                      SameEntity(pages[i], pages[j]) => i = j
                /\ \A k \in 1..Len(partials) :
                      \E i \in 1..Len(pages) : SameEntity(pages[i], partials[k])
                /\ \A i \in 1..Len(pages) :
                      LET same == SelectSeq(partials,
                                      LAMBDA q : SameEntity(q, pages[i]))
                      IN  /\ same # <<>>
                          /\ pages[i] = Obj(DeepMerge(Head(same).v, Tail(same)))

\* the batch of the test: A with extra and B, then A and B with extra, all
\* with page ID 0: two pages were yielded, A with a and B with b
C35_Witness ==
    \E r \in PagesCalls :
        /\ Len(responses[r]) >= 2
        /\ BatchYielded(r, 2)
        /\ BatchStart(responses[r], 2) = 1
        /\ \A n \in 1..2 : \A k \in 1..2 :
              /\ Len(ResponsePages(responses[r][n])) = 2
              /\ GetProperty(ResponsePages(responses[r][n])[k].v, "pageid") = Num(0)
        /\ YieldedWith(r, 2) = <<MissingPage("A", <<<<"extra", Str("a")>>>>),
                                 MissingPage("B", <<<<"extra", Str("b")>>>>)>>

(***************************************************************************)
(* The order of the pages of a batch without comparePages (Spec)           *)
(***************************************************************************)
\* the place of the first partial page with that key among the partial
\* pages of a batch, which stand in response order and, within a response,
\* in the order of its pages
FirstOccurrence(partials, key) ==
    CHOOSE k \in 1..Len(partials) :
        /\ PageKey(partials[k]) = key
        /\ \A earlier \in 1..(k - 1) : PageKey(partials[earlier]) # key

IncrementalCalls ==
    {r \in Requests :
        kind[r] \in {"queryIncrementalPageByTitle", "queryIncrementalPageByPageId"}}

\* C38: queryIncrementalPageByTitle and queryIncrementalPageByPageId yield
\* one value for every response received, in the order of the responses:
\* the page of the response with the title or page ID asked for, or null;
\* no response before the latest one carried batchcomplete; and once a
\* response with batchcomplete has been received, every request has been
\* answered, whether or not that response carried continue.
C38_OneValuePerResponse ==
    \A r \in IncrementalCalls :
        /\ Len(yields[r]) = Len(responses[r])
        /\ \A n \in 1..Len(responses[r]) :
              /\ yields[r][n][1] = n
              /\ yields[r][n][2] = TargetPage(
                    IF kind[r] = "queryIncrementalPageByTitle"
                    THEN "queryFullPageByTitle" ELSE "queryFullPageByPageId",
                    responses[r][n])
              /\ n < Len(responses[r]) =>
                    /\ ~BatchComplete(responses[r][n])
                    /\ responses[r][n].continue
        /\ (responses[r] # <<>> /\ BatchComplete(responses[r][Len(responses[r])]))
              => /\ requests[r] = Len(responses[r])
                 /\ pc[r] \in {"yielded", "done", "stopped"}

\* two responses, the first without the page, the second with batchcomplete
\* and continue: null and then the page were yielded, and the generator is
\* done after two requests
C38_Witness ==
    \E r \in IncrementalCalls :
        /\ pc[r] = "done"
        /\ Len(responses[r]) = 2
        /\ yields[r][1][2] = Null
        /\ yields[r][2][2] # Null
        /\ BatchComplete(responses[r][2])
        /\ responses[r][2].continue
        /\ requests[r] = 2

(***************************************************************************)
(* Two queryFullPages calls at the same time (SpecIsolated)                *)
(***************************************************************************)
\* the keys of the pages, each once, in the order in which they first occur
RECURSIVE KeysInOrder(_)
KeysInOrder(pages) ==
    IF pages = <<>> THEN <<>>
    ELSE LET before == KeysInOrder(SubSeq(pages, 1, Len(pages) - 1))
             key == PageKey(pages[Len(pages)])
         IN  IF \E i \in 1..Len(before) : before[i] = key
             THEN before ELSE Append(before, key)

\* what a queryFullPages call that receives the responses rs, and no other
\* call beside it, yields (without comparePages) up to the n-th response:
\* for every response with batchcomplete, the merged pages of its batch
RECURSIVE YieldsAlone(_, _)
YieldsAlone(rs, n) ==
    IF n = 0 THEN <<>>
    ELSE YieldsAlone(rs, n - 1) \o
         (IF BatchComplete(rs[n])
          THEN LET partials == BatchPartials(rs, n)
                   keys == KeysInOrder(partials)
               IN  [i \in 1..Len(keys) |-> <<n, MergedPage(partials, keys[i])>>]
          ELSE <<>>)

\* C39: of two queryFullPages calls whose responses arrive interleaved in
\* any way, each yields what it would yield if it received its own
\* responses alone: the pages yielded so far are the first of those, all of
\* them once nothing waits to be yielded; and no page yielded by a call holds
\* an attribute or an array element that only responses to the other call
\* brought, although both calls are about the same page ID.
C39_CallsAreIsolated ==
    \A r \in PagesCalls :
        LET alone == YieldsAlone(responses[r], Len(responses[r]))
        IN  /\ Len(yields[r]) <= Len(alone)
            /\ yields[r] = SubSeq(alone, 1, Len(yields[r]))
            /\ (pc[r] \in {"awaiting", "done"} /\ error[r] = NoError)
                  => yields[r] = alone
            /\ \A i \in 1..Len(yields[r]) :
                  LET page == yields[r][i][2]
                      foreign == IF r = "request1" THEN "b" ELSE "a"
                      link == IF r = "request1" THEN Num(2) ELSE Num(1)
                      links == GetProperty(page.v, "links")
                  IN  /\ ~HasOwnProperty(page.v, foreign)
                      /\ links # Undefined =>
                            \A k \in 1..Len(links.v) : links.v[k] # link

\* both calls were in the middle of a batch about page 1 at the same time,
\* and each has yielded page 1 with its own attribute and links
C39_Witness ==
    /\ \A r \in Requests :
          /\ kind[r] = "queryFullPages"
          /\ Len(responses[r]) = 2
          /\ ~BatchComplete(responses[r][1])
          /\ Len(yields[r]) = 1
          /\ HasOwnProperty(yields[r][1][2].v, "links")
    /\ HasOwnProperty(yields["request1"][1][2].v, "a")
    /\ HasOwnProperty(yields["request2"][1][2].v, "b")

(***************************************************************************)
(* The accumulated page only grows (SpecFullPage)                          *)
(***************************************************************************)
\* the paths at which the partial pages of the model hold a value
RECURSIVE Prefixes(_)
Prefixes(path) ==
    IF path = <<>> THEN {}
    ELSE {path} \cup Prefixes(SubSeq(path, 1, Len(path) - 1))

ValuePaths ==
    {<<"title">>, <<"pageid">>} \cup UNION {Prefixes(path) : path \in AttributePaths}

\* C40: with the default mergeValues, a merge that succeeds leaves every
\* path of the accumulated page in place, leaves no array of it shorter
\* (what it held stays at the front), and leaves every string and number
\* of it as it was.
C40_AccumulatorOnlyGrows ==
    [][\A r \in FullPageCalls :
          (/\ options[r].mergeValues = "mergeValues"
           /\ Len(responses'[r]) = Len(responses[r]) + 1
           /\ error'[r] = NoError)
          =>
          \A path \in ValuePaths :
              LET before == ValueAt(Obj(accumulator[r]), path)
                  after == ValueAt(Obj(accumulator'[r]), path)
              IN  /\ before # Undefined => after # Undefined
                  /\ isObject(before) => isObject(after)
                  /\ isArray(before) =>
                        /\ isArray(after)
                        /\ Len(after.v) >= Len(before.v)
                        /\ SubSeq(after.v, 1, Len(before.v)) = before.v
                  /\ before.k \in {"string", "number"} => after = before
      ]_vars

\* after s at a.b.c.d, [ 1 ] at x and then [ 2 ] at x, the page returned
\* still holds s at a.b.c.d and holds [ 1, 2 ] at x
C40_Witness ==
    \E r \in FullPageCalls :
        /\ options[r].mergeValues = "mergeValues"
        /\ pc[r] = "returned"
        /\ Len(responses[r]) = 3
        /\ ValueAt(TargetPage(kind[r], responses[r][1]), <<"a", "b", "c", "d">>) = Str("s")
        /\ ValueAt(TargetPage(kind[r], responses[r][2]), <<"x">>) = Arr(<<Num(1)>>)
        /\ ValueAt(TargetPage(kind[r], responses[r][3]), <<"x">>) = Arr(<<Num(2)>>)
        /\ ValueAt(result[r], <<"a", "b", "c", "d">>) = Str("s")
        /\ ValueAt(result[r], <<"x">>) = Arr(<<Num(1), Num(2)>>)

====
